---- MODULE Spec2Model ----
(***************************************************************************)
(* A model of the brain-opt compiler: lowering of tokens to Steps, the     *)
(* Step-level peephole and startup evaluator (src/src/compiler.rs), the    *)
(* lowering to x86-64 Instructions, the optimizer passes and their         *)
(* scheduler (src/src/optimizer.rs, src/src/instruction.rs), the ABI       *)
(* templates (src/src/target_abi) and the reference interpreter            *)
(* (src/src/interpreter.rs).                                               *)
(*                                                                         *)
(* Vectors are sequences; Rust indices are 0-based, so element i of a Vec  *)
(* is s[i + 1] here.  A panic (unwrap on None, unreachable!, an overflow   *)
(* check) is an explicit outcome, never a missing transition.              *)
(***************************************************************************)
EXTENDS Integers, Sequences, FiniteSets, TLC

VARIABLES
    pc,               \* position in compile_tokens / in the harness
    abi,              \* target ABI: "Linux" or "MacOS"
    debug_build,      \* build profile: TRUE = overflow checks and debug_assert! are on
    tokens,           \* the token vector handed to compile_tokens
    state,            \* compiler::State: scope, next_label, steps (+ tokens consumed)
    intp,             \* StepInterpreterState of optimize_startup
    prev_steps,       \* state.steps before the last Step-level pass
    ops,              \* the Instruction vector inside codegen::optimize
    queue,            \* the scheduler's work queue (last element = top)
    prev_ops,         \* ops before the last pass execution
    last_pass,        \* the pass executed last
    runs,             \* number of pass executions so far
    input,            \* bytes on stdin for the execution under comparison
    mach,             \* the x86-64 machine executing the emitted program
    ref,              \* the reference interpreter (interpreter.rs)
    before,           \* an execution of prev_steps, the steps before a Step-level pass
    after             \* an execution of state.steps, the steps after that pass

vars == <<pc, abi, debug_build, tokens, state, intp, prev_steps, ops, queue,
          prev_ops, last_pass, runs, input, mach, ref, before, after>>

build    == <<abi, debug_build, tokens>>
frontend == <<state, intp, prev_steps>>
backend  == <<ops, queue, prev_ops, last_pass, runs>>
running  == <<input, mach, ref, before, after>>
stepruns == <<before, after>>

(***************************************************************************)
(* Number widths.  u8 keeps its width.  u64/usize counters are scaled to   *)
(* U64Mod values (TLC's integers are 32 bits wide): every wrapping_add,    *)
(* checked_add and subtraction below wraps or fails at U64Mod exactly as   *)
(* the code does at 2^64.                                                  *)
(***************************************************************************)
U8Mod == 256
U64Mod == 64

Min(S) == CHOOSE x \in S : \A y \in S : x <= y
Max(S) == CHOOSE x \in S : \A y \in S : x >= y

SeqsUpTo(A, n) == UNION {[1..k -> A] : k \in 0..n}

(***************************************************************************)
(* parser.rs: tokens                                                       *)
(***************************************************************************)
Token == {">", "<", "+", "-", ".", ",", "[", "]"}

\* parse(): the bracket balance check; level never drops below zero and ends at zero
RECURSIVE balance(_, _)
balance(ts, level) ==
    IF ts = <<>> THEN level = 0
    ELSE IF Head(ts) = "[" THEN balance(Tail(ts), level + 1)
    ELSE IF Head(ts) = "]" THEN level > 0 /\ balance(Tail(ts), level - 1)
    ELSE balance(Tail(ts), level)

(***************************************************************************)
(* compiler.rs: Step                                                       *)
(***************************************************************************)
StepNext(n)          == [op |-> "Next", n |-> n]
StepPrev(n)          == [op |-> "Prev", n |-> n]
StepAdd(n)           == [op |-> "Add", n |-> n]
StepJumpTo(l)        == [op |-> "JumpTo", label |-> l]
StepJumpToIf(c, l)   == [op |-> "JumpToIf", cond |-> c, label |-> l]
StepLabel(l)         == [op |-> "Label", label |-> l]
StepOutput           == [op |-> "Output"]
StepInput            == [op |-> "Input"]
\* the vector standing for "the pass panicked"
PanicStep            == [op |-> "Panic"]

\* State::new
StateNew == [scope |-> <<>>, next_label |-> 0, steps |-> <<>>, consumed |-> 0]

\* append with get_label handing out the same label for both ends of a loop
append_one_label(st, token) ==
    LET push(s) == [st EXCEPT !.steps = Append(@, s), !.consumed = @ + 1] IN
    CASE token = ">" -> push(StepNext(1))
      [] token = "<" -> push(StepPrev(1))
      [] token = "+" -> push(StepAdd(1))
      [] token = "-" -> push(StepAdd(255))
      [] token = "." -> push(StepOutput)
      [] token = "," -> push(StepInput)
      [] token = "[" ->
            LET source_label == st.next_label
                target_label == st.next_label
            IN [st EXCEPT !.next_label = @ + 1,
                          !.scope = Append(@, <<source_label, target_label>>),
                          !.steps = @ \o <<StepJumpToIf(FALSE, target_label),
                                           StepLabel(source_label)>>,
                          !.consumed = @ + 1]
      [] token = "]" ->
            LET top == st.scope[Len(st.scope)] IN
            [st EXCEPT !.scope = SubSeq(@, 1, Len(@) - 1),
                       !.steps = @ \o <<StepJumpToIf(TRUE, top[1]), StepLabel(top[2])>>,
                       !.consumed = @ + 1]

\* State::append (get_label inlined: result = next_label, next_label += 1)
append(st, token) ==
    LET push(s) == [st EXCEPT !.steps = Append(@, s), !.consumed = @ + 1] IN
    CASE token = ">" -> push(StepNext(1))
      [] token = "<" -> push(StepPrev(1))
      [] token = "+" -> push(StepAdd(1))
      [] token = "-" -> push(StepAdd(255))
      [] token = "." -> push(StepOutput)
      [] token = "," -> push(StepInput)
      [] token = "[" ->
            LET source_label == st.next_label
                target_label == st.next_label + 1
            IN [st EXCEPT !.next_label = @ + 2,
                          !.scope = Append(@, <<source_label, target_label>>),
                          !.steps = @ \o <<StepJumpToIf(FALSE, target_label),
                                           StepLabel(source_label)>>,
                          !.consumed = @ + 1]
      [] token = "]" ->
            LET top == st.scope[Len(st.scope)] IN
            [st EXCEPT !.scope = SubSeq(@, 1, Len(@) - 1),
                       !.steps = @ \o <<StepJumpToIf(TRUE, top[1]), StepLabel(top[2])>>,
                       !.consumed = @ + 1]

RECURSIVE append_all(_, _)
append_all(st, ts) == IF ts = <<>> THEN st ELSE append_all(append(st, Head(ts)), Tail(ts))

\* a u64 subtraction `x - y`: panics under overflow checks, wraps otherwise
u64_sub_fails(x, y) == x < y /\ debug_build
u64_sub(x, y)       == (x - y + U64Mod) % U64Mod

\* combine merging two Adds and swallowing whatever second step follows an Add
combine_over_step(a, b) ==
    IF a.op = "Add" THEN
        IF b.op = "Add" THEN <<StepAdd((a.n + b.n) % U8Mod)>>
        ELSE IF b.op \in {"Label", "Output"} THEN <<b, a>> ELSE <<a, b>>
    ELSE <<a, b>>

\* State::combine
combine(a, b) ==
    IF a.op = "Add" THEN
        IF b.op = "Add" THEN <<StepAdd((a.n + b.n) % U8Mod)>> ELSE <<a, b>>
    ELSE IF a.op = "Next" THEN
        IF b.op = "Next" THEN <<StepNext((a.n + b.n) % U64Mod)>>
        ELSE IF b.op = "Prev" THEN
            IF a.n = b.n THEN <<>>
            ELSE IF a.n > b.n THEN <<StepNext(a.n - b.n)>>
            ELSE <<StepPrev(b.n - a.n)>>
        ELSE <<a, b>>
    ELSE IF a.op = "Prev" THEN
        IF b.op = "Prev" THEN
            IF a.n + b.n >= U64Mod THEN <<PanicStep>> ELSE <<StepPrev(a.n + b.n)>>
        ELSE IF b.op = "Next" THEN
            IF a.n = b.n THEN <<>>
            ELSE IF a.n < b.n THEN
                IF u64_sub_fails(a.n, b.n) THEN <<PanicStep>>
                ELSE <<StepNext(u64_sub(a.n, b.n))>>
            ELSE
                IF u64_sub_fails(b.n, a.n) THEN <<PanicStep>>
                ELSE <<StepPrev(u64_sub(b.n, a.n))>>
        ELSE <<a, b>>
    ELSE <<a, b>>

\* State::optimize_peephole_combine: the while loop, from cursor `index`
RECURSIVE peephole_from(_, _)
peephole_from(steps, index) ==
    IF ~(index + 1 < Len(steps)) THEN steps
    ELSE LET a == steps[index + 1]
             b == steps[index + 2]
             c == combine(a, b)
         IN IF c = <<PanicStep>> THEN <<PanicStep>>
            ELSE peephole_from(SubSeq(steps, 1, index) \o c
                                   \o SubSeq(steps, index + 3, Len(steps)),
                               IF c = <<a, b>> THEN index + 1 ELSE index)

optimize_peephole_combine(steps) == peephole_from(steps, 0)

(***************************************************************************)
(* compiler.rs: Tape and StepInterpreter                                   *)
(***************************************************************************)
\* impl Index for Tape
TapeGet(tape, i) == IF i < Len(tape) THEN tape[i + 1] ELSE 0

\* Tape::add
TapeAdd(tape, index, add) ==
    LET grown == tape \o [k \in 1..(index + 1 - Len(tape)) |-> 0]
    IN [grown EXCEPT ![index + 1] = (@ + add) % U8Mod]

\* Tape::trim
RECURSIVE TapeTrim(_)
TapeTrim(tape) ==
    IF Len(tape) > 0 /\ tape[Len(tape)] = 0
    THEN TapeTrim(SubSeq(tape, 1, Len(tape) - 1)) ELSE tape

\* StepInterpreterState at the start of optimize_startup; status is the outcome of
\* the last step(): "run" (returned true), "blocked" (returned false), "panic"
IntpNew == [index |-> 0, tape |-> <<>>, pointer |-> 0, output |-> <<>>, status |-> "run"]

\* StepInterpreter::done
done(steps, st) == st.index = Len(steps)

\* StepInterpreter::jump_to: the first Label(label); unreachable! when there is none
jump_to(steps, st, label) ==
    LET at == {i \in 1..Len(steps) : steps[i] = StepLabel(label)}
    IN IF at = {} THEN [st EXCEPT !.status = "panic"]
       ELSE [st EXCEPT !.index = Min(at) - 1]

\* StepInterpreter::step
step(steps, st) ==
    LET s == steps[st.index + 1]
        advance(t) == IF t.status = "panic" THEN t ELSE [t EXCEPT !.index = @ + 1]
    IN CASE s.op = "Next" ->
              IF st.pointer + s.n >= U64Mod THEN [st EXCEPT !.status = "panic"]
              ELSE advance([st EXCEPT !.pointer = @ + s.n])
         [] s.op = "Prev" ->
              IF st.pointer < s.n THEN [st EXCEPT !.status = "panic"]
              ELSE advance([st EXCEPT !.pointer = @ - s.n])
         [] s.op = "Add" ->
              advance([st EXCEPT !.tape = TapeAdd(@, st.pointer, s.n)])
         [] s.op = "JumpTo" -> advance(jump_to(steps, st, s.label))
         [] s.op = "JumpToIf" ->
              IF s.cond = (TapeGet(st.tape, st.pointer) # 0)
              THEN advance(jump_to(steps, st, s.label))
              ELSE advance(st)
         [] s.op = "Label" -> advance(st)
         [] s.op = "Output" ->
              advance([st EXCEPT !.output = Append(@, TapeGet(st.tape, st.pointer))])
         [] s.op = "Input" -> [st EXCEPT !.status = "blocked"]
         [] OTHER -> [st EXCEPT !.status = "panic"]

\* optimize_startup, "Print initial output": one group per buffered byte, the
\* zeroing label of byte k being next_label + k
RECURSIVE print_output(_, _)
print_output(output, label) ==
    IF output = <<>> THEN <<>>
    ELSE <<StepAdd(Head(output)), StepOutput, StepLabel(label), StepAdd(1),
           StepJumpToIf(TRUE, label)>> \o print_output(Tail(output), label + 1)

\* the tape written back without its zero cells
RECURSIVE tape_contents_nonzero(_)
tape_contents_nonzero(tape) ==
    IF tape = <<>> THEN <<>>
    ELSE (IF Head(tape) = 0 THEN <<>> ELSE <<StepAdd(Head(tape)), StepNext(1)>>)
             \o tape_contents_nonzero(Tail(tape))

\* optimize_startup, "Insert tape contents"
RECURSIVE tape_contents(_)
tape_contents(tape) ==
    IF tape = <<>> THEN <<>>
    ELSE <<StepAdd(Head(tape)), StepNext(1)>> \o tape_contents(Tail(tape))

\* optimize_startup after the evaluation loop: the new State
startup_emit(st, end) ==
    IF done(st.steps, end) THEN
        [st EXCEPT !.steps = print_output(end.output, st.next_label),
                   !.next_label = @ + Len(end.output)]
    ELSE
        LET tape     == TapeTrim(end.tape)
            tape_len == Len(tape)
            printed  == print_output(end.output, st.next_label)
            adjust   == IF tape_len > end.pointer
                            THEN <<StepPrev(tape_len - end.pointer)>>
                        ELSE IF tape_len < end.pointer
                            THEN <<StepNext(end.pointer - tape_len)>>
                        ELSE <<>>
            label_zero == st.next_label + Len(end.output)
            spliced  == IF end.index # 0
                        THEN <<StepJumpTo(label_zero)>>
                                 \o SubSeq(st.steps, 1, end.index)
                                 \o <<StepLabel(label_zero)>>
                                 \o SubSeq(st.steps, end.index + 1, Len(st.steps))
                        ELSE st.steps
        IN [st EXCEPT !.steps = printed \o tape_contents(tape) \o adjust \o spliced,
                      !.next_label = IF end.index # 0 THEN label_zero + 1 ELSE label_zero]

(***************************************************************************)
(* instruction.rs: Effects and Instruction                                 *)
(***************************************************************************)
Effects(f, r, c, s, i) ==
    [flags |-> f, registers |-> r, control_flow |-> c, stack |-> s, io |-> i]
VOLATILE   == Effects(TRUE, TRUE, TRUE, TRUE, TRUE)
REG        == Effects(FALSE, TRUE, FALSE, FALSE, FALSE)
FLAG       == Effects(TRUE, FALSE, FALSE, FALSE, FALSE)
ARITHMETIC == Effects(TRUE, TRUE, FALSE, FALSE, FALSE)
JUMP       == Effects(FALSE, FALSE, TRUE, FALSE, FALSE)
LABEL      == Effects(TRUE, TRUE, FALSE, FALSE, FALSE)
NOP        == Effects(FALSE, FALSE, FALSE, FALSE, FALSE)

\* Label names are strings built by format!: a prefix and a decimal counter,
\* kept here as the pair <<prefix, counter>>.  The immediate of a 16/32/64-bit
\* store is kept as its base-256 digits, least significant first.
BlackBox(src, eff)            == [op |-> "BlackBox", src |-> src, eff |-> eff]
NamedBlackBox(name, src, eff) == [op |-> "NamedBlackBox", name |-> name, src |-> src, eff |-> eff]
MovImm(r, v)        == [op |-> "MovImm", r |-> r, v |-> v]
MovImmVar(r, name)  == [op |-> "MovImmVar", r |-> r, name |-> name]
Mov(r1, r2)         == [op |-> "Mov", r |-> r1, r2 |-> r2]
MovPtr8Imm(r, v)    == [op |-> "MovPtr8Imm", r |-> r, v |-> v]
MovPtr16Imm(r, d)   == [op |-> "MovPtr16Imm", r |-> r, d |-> d]
MovPtr32Imm(r, d)   == [op |-> "MovPtr32Imm", r |-> r, d |-> d]
MovPtr64Imm(r, d)   == [op |-> "MovPtr64Imm", r |-> r, d |-> d]
AddImm(r, v)        == [op |-> "AddImm", r |-> r, v |-> v]
SubImm(r, v)        == [op |-> "SubImm", r |-> r, v |-> v]
AddPtr8Imm(r, v)    == [op |-> "AddPtr8Imm", r |-> r, v |-> v]
IsZero(r)           == [op |-> "IsZero", r |-> r]
IsZeroPtr8(r)       == [op |-> "IsZeroPtr8", r |-> r]
JumpZero(l)         == [op |-> "JumpZero", l |-> l]
JumpNonZero(l)      == [op |-> "JumpNonZero", l |-> l]
Jump(l)             == [op |-> "Jump", l |-> l]
Label(l)            == [op |-> "Label", l |-> l]
Data(name, bytes)   == [op |-> "Data", name |-> name, bytes |-> bytes]

\* Instruction::effects: Some(e) is <<e>>, None is <<>>
effects(i) ==
    CASE i.op \in {"BlackBox", "NamedBlackBox"} -> <<i.eff>>
      [] i.op \in {"MovImm", "MovImmVar", "Mov", "MovPtr8Imm", "MovPtr16Imm",
                   "MovPtr32Imm", "MovPtr64Imm"} -> <<REG>>
      [] i.op \in {"AddImm", "SubImm", "AddPtr8Imm"} ->
            IF i.v = 0 THEN <<FLAG>> ELSE <<ARITHMETIC>>
      [] i.op \in {"IsZero", "IsZeroPtr8"} -> <<FLAG>>
      [] i.op \in {"JumpZero", "JumpNonZero", "Jump"} -> <<JUMP>>
      [] i.op = "Label" -> <<LABEL>>
      [] i.op = "Data" -> <<>>

\* Instruction::affects_zero_flag
affects_zero_flag(i) == effects(i) # <<>> /\ effects(i)[1].flags

\* Instruction::reads_zf
reads_zf(i) == i.op \in {"BlackBox", "NamedBlackBox", "JumpZero", "JumpNonZero"}

\* a fusion of MovPtr8Imm and AddPtr8Imm that keeps the mov value and loses the add
Instruction_combine_add_lost(self, other) ==
    IF self.op = "MovPtr8Imm" /\ other.op = "AddPtr8Imm" /\ self.r = other.r
        THEN <<MovPtr8Imm(self.r, self.v)>>
    ELSE <<self, other>>

\* Instruction::combine
Instruction_combine(self, other) ==
    IF self.op = "AddPtr8Imm" /\ other.op = "AddPtr8Imm" /\ self.r = other.r
        THEN <<AddPtr8Imm(self.r, (self.v + other.v) % U8Mod)>>
    ELSE IF self.op = "AddPtr8Imm" /\ other.op = "MovPtr8Imm" /\ self.r = other.r
        THEN <<MovPtr8Imm(self.r, other.v)>>
    ELSE IF self.op = "MovPtr8Imm" /\ other.op = "AddPtr8Imm" /\ self.r = other.r
        THEN <<MovPtr8Imm(self.r, (self.v + other.v) % U8Mod)>>
    ELSE IF self.op = "AddImm" /\ other.op = "AddImm" /\ self.r = other.r
        THEN <<AddImm(self.r, (self.v + other.v) % U64Mod)>>
    ELSE IF self.op = "AddImm" /\ other.op = "SubImm" /\ self.r = other.r
        THEN IF self.v = other.v THEN <<>>
             ELSE IF self.v < other.v THEN <<SubImm(self.r, other.v - self.v)>>
             ELSE <<AddImm(self.r, self.v - other.v)>>
    ELSE IF self.op = "SubImm" /\ other.op = "AddImm" /\ self.r = other.r
        THEN \* other.combine(self)
             IF other.v = self.v THEN <<>>
             ELSE IF other.v < self.v THEN <<SubImm(other.r, self.v - other.v)>>
             ELSE <<AddImm(other.r, other.v - self.v)>>
    ELSE IF self.op = "SubImm" /\ other.op = "SubImm" /\ self.r = other.r
        THEN <<SubImm(self.r, (self.v + other.v) % U64Mod)>>
    ELSE IF self.op = "JumpZero" /\ other.op = "JumpZero" THEN <<self>>
    ELSE IF self.op = "JumpNonZero" /\ other.op = "JumpNonZero" THEN <<self>>
    ELSE <<self, other>>

(***************************************************************************)
(* optimizer.rs: the passes                                                *)
(***************************************************************************)
\* optimize_adjacent: the fold, `a` the accumulator and `rest` the items to come
RECURSIVE adjacent_fold(_, _)
adjacent_fold(a, rest) ==
    IF rest = <<>> THEN a
    ELSE LET b == Head(rest)
         IN adjacent_fold(IF a = <<>> THEN <<b>>
                          ELSE SubSeq(a, 1, Len(a) - 1)
                                   \o Instruction_combine(a[Len(a)], b),
                          Tail(rest))

optimize_adjacent(v) == adjacent_fold(<<>>, v)

\* usize::is_power_of_two
RECURSIVE is_power_of_two(_)
is_power_of_two(n) == n = 1 \/ (n > 1 /\ n % 2 = 0 /\ is_power_of_two(n \div 2))

\* optimize_adjancent_mem_movs: the inner while, collecting the run's immediates
RECURSIVE collect_imms(_, _, _)
collect_imms(v, index, imms) ==
    IF index + Len(imms) < Len(v)
       /\ v[index + Len(imms) + 1].op = "MovPtr8Imm"
       /\ v[index + Len(imms) + 1].r = v[index + 1].r
    THEN collect_imms(v, index, Append(imms, v[index + Len(imms) + 1].v))
    ELSE imms

\* `while !imms.len().is_power_of_two() { imms.pop(); }`
RECURSIVE pop_to_power_of_two(_)
pop_to_power_of_two(imms) ==
    IF is_power_of_two(Len(imms)) THEN imms
    ELSE pop_to_power_of_two(SubSeq(imms, 1, Len(imms) - 1))

\* `orred = (orred << 8) | u64::from(imm)` on the eight base-256 digits of a u64
shl8_or(orred, imm) == <<imm>> \o SubSeq(orred, 1, 7)

\* the packing loop without `.rev()`: the first store ends up in the highest byte
RECURSIVE pack_fwd(_)
pack_fwd(imms) ==
    IF imms = <<>> THEN <<0, 0, 0, 0, 0, 0, 0, 0>>
    ELSE shl8_or(pack_fwd(SubSeq(imms, 1, Len(imms) - 1)), imms[Len(imms)])

\* `for imm in imms.into_iter().rev() { orred = (orred << 8) | imm }`, orred = 0 first
RECURSIVE pack_rev(_)
pack_rev(imms) ==
    IF imms = <<>> THEN <<0, 0, 0, 0, 0, 0, 0, 0>>
    ELSE shl8_or(pack_rev(Tail(imms)), Head(imms))

RECURSIVE adjancent_mem_movs_from(_, _, _)
adjancent_mem_movs_from(v, index, result) ==
    IF ~(index < Len(v)) THEN result
    ELSE LET op   == v[index + 1]
             run  == collect_imms(v, index, <<op.v>>)
             imms == pop_to_power_of_two(SubSeq(run, 1, Min({8, Len(run)})))
             bytes == Len(imms)
             orred == pack_rev(imms)
         IN IF op.op = "MovPtr8Imm" /\ Len(run) > 1
            THEN adjancent_mem_movs_from(v, index + bytes,
                    result \o <<CASE bytes = 2 -> MovPtr16Imm(op.r, SubSeq(orred, 1, 2))
                                  [] bytes = 4 -> MovPtr32Imm(op.r, SubSeq(orred, 1, 4))
                                  [] bytes = 8 -> MovPtr64Imm(op.r, orred),
                                AddImm(op.r, bytes)>>)
            ELSE adjancent_mem_movs_from(v, index + 1, Append(result, op))

optimize_adjancent_mem_movs(v) == adjancent_mem_movs_from(v, 0, <<>>)

\* optimize_start_cells: the while loop from cursor `index`
RECURSIVE start_cells_from(_, _)
start_cells_from(v, index) ==
    IF ~(index < Len(v)) THEN v
    ELSE LET op == v[index + 1]
         IN IF op.op = "AddPtr8Imm" THEN
                IF op.v = 0
                THEN start_cells_from(Tail(v), index)          \* ops.remove(0)
                ELSE start_cells_from([v EXCEPT ![index + 1] = MovPtr8Imm(op.r, op.v)],
                                      index + 1)
            ELSE IF op.op = "AddImm" THEN start_cells_from(v, index + 1)
            ELSE v

optimize_start_cells(v) == start_cells_from(v, 0)

\* the pass recognising only the decrementing loop `[-]`
RECURSIVE zero_loop_dec_only(_, _, _)
zero_loop_dec_only(v, index, result) ==
    IF ~(index < Len(v)) THEN result
    ELSE IF /\ index + 2 < Len(v)
            /\ v[index + 3].op = "JumpNonZero"
            /\ v[index + 2].op = "AddPtr8Imm" /\ v[index + 2].v = 255
            /\ v[index + 1] = Label(v[index + 3].l)
         THEN zero_loop_dec_only(v, index + 3, Append(result, MovPtr8Imm(v[index + 2].r, 0)))
         ELSE zero_loop_dec_only(v, index + 1, Append(result, v[index + 1]))

\* optimize_zero_loop
RECURSIVE zero_loop_from(_, _, _)
zero_loop_from(v, index, result) ==
    IF ~(index < Len(v)) THEN result
    ELSE IF /\ index + 2 < Len(v)
            /\ v[index + 3].op = "JumpNonZero"
            /\ v[index + 2].op = "AddPtr8Imm" /\ v[index + 2].v \in {1, 255}
            /\ v[index + 1] = Label(v[index + 3].l)
         THEN zero_loop_from(v, index + 3, Append(result, MovPtr8Imm(v[index + 2].r, 0)))
         ELSE zero_loop_from(v, index + 1, Append(result, v[index + 1]))

optimize_zero_loop(v) == zero_loop_from(v, 0, <<>>)

\* no label counted as used
used_labels_none(v) == {}

\* optimize_remove_unused_labels: the set built by the first loop
used_labels(v) ==
    {v[i].l : i \in {j \in 1..Len(v) : v[j].op \in {"Jump", "JumpZero", "JumpNonZero"}}}

RECURSIVE remove_unused_labels_from(_, _, _, _)
remove_unused_labels_from(v, used, index, result) ==
    IF ~(index < Len(v)) THEN result
    ELSE IF v[index + 1].op = "Label" /\ v[index + 1].l \notin used
         THEN remove_unused_labels_from(v, used, index + 1, result)
         ELSE remove_unused_labels_from(v, used, index + 1, Append(result, v[index + 1]))

optimize_remove_unused_labels(v) == remove_unused_labels_from(v, used_labels(v), 0, <<>>)


\* the vector standing for "the pass panicked"
PanicOps == <<[op |-> "Panic"]>>

rdi == "rdi"
rsi == "rsi"
rdx == "rdx"
rax == "rax"
rbx == "rbx"

\* optimize_constant_output: get_label!()
constant_output_name(n) == <<"constant_output", n>>

\* optimize_constant_output: the recogniser of one "write a literal byte" group
is_const_write(v, index) ==
    /\ index + 4 < Len(v)
    /\ v[index + 1].op = "MovPtr8Imm"
    /\ v[index + 2] = MovImm(rdi, 1)
    /\ v[index + 3] = Mov(rsi, v[index + 1].r)
    /\ v[index + 4] = MovImm(rdx, 1)
    /\ v[index + 5].op = "NamedBlackBox"
    /\ v[index + 5].name = "write"

\* optimize_constant_output: the while loop; c carries name_label, result,
\* current_bytes, const_strings and write_fn
RECURSIVE constant_output_from(_, _, _)
constant_output_from(v, index, c) ==
    IF ~(index < Len(v)) THEN c.result \o c.const_strings
    ELSE IF is_const_write(v, index) THEN
        LET bb == BlackBox(v[index + 5].src, v[index + 5].eff)
        IN IF c.write_fn # <<>> /\ c.write_fn # <<bb>> /\ debug_build
           THEN PanicOps                                      \* debug_assert_eq!(wf, bb)
           ELSE constant_output_from(v, index + 5,
                    [c EXCEPT !.write_fn = IF @ = <<>> THEN <<bb>> ELSE @,
                              !.current_bytes = Append(@, v[index + 1].v)])
    ELSE IF c.current_bytes # <<>> THEN
        LET name == constant_output_name(c.name_label)
        IN constant_output_from(v, index + 1,
                [c EXCEPT !.name_label = @ + 1,
                          !.result = @ \o <<MovImm(rdi, 1), MovImmVar(rsi, name),
                                            MovImm(rdx, Len(c.current_bytes)),
                                            c.write_fn[1], v[index + 1]>>,
                          !.const_strings = Append(@, Data(name, c.current_bytes)),
                          !.current_bytes = <<>>])
    ELSE constant_output_from(v, index + 1, [c EXCEPT !.result = Append(@, v[index + 1])])

optimize_constant_output(v) ==
    constant_output_from(v, 0, [name_label |-> 0, result |-> <<>>, current_bytes |-> <<>>,
                                const_strings |-> <<>>, write_fn |-> <<>>])

\* optimize_zero_flags: the backward scan `while i < index`, from i
RECURSIVE zero_flags_scan(_, _, _)
zero_flags_scan(v, index, i) ==
    IF i < index /\ ~affects_zero_flag(v[index - i + 1])
    THEN zero_flags_scan(v, index, i + 1) ELSE i

RECURSIVE zero_flags_from(_, _, _)
zero_flags_from(v, index, result) ==
    IF ~(index < Len(v)) THEN result
    ELSE IF v[index + 1].op = "IsZeroPtr8" THEN
        LET i == zero_flags_scan(v, index, 1)
        IN IF index - i < 0 THEN PanicOps                     \* ops[index - i]
           ELSE LET q == v[index - i + 1]
                IN IF \/ q = IsZeroPtr8(v[index + 1].r)
                      \/ (q.op = "AddPtr8Imm" /\ q.r = v[index + 1].r)
                   THEN zero_flags_from(v, index + 1, result)
                   ELSE zero_flags_from(v, index + 1, Append(result, v[index + 1]))
    ELSE zero_flags_from(v, index + 1, Append(result, v[index + 1]))

optimize_zero_flags(v) == zero_flags_from(v, 0, <<>>)

\* control_flow || io, false for Data
control_or_io(i) == effects(i) # <<>> /\ (effects(i)[1].control_flow \/ effects(i)[1].io)

\* the forward scan without `if offset > 1`
RECURSIVE exit_scan_any_offset(_, _, _)
exit_scan_any_offset(v, index, offset) ==
    IF ~(index + offset < Len(v)) THEN "keep"
    ELSE LET o == v[index + offset + 1]
         IN IF o.op = "NamedBlackBox" /\ o.name = "exit" THEN "remove"
            ELSE IF control_or_io(o) THEN "keep"
            ELSE exit_scan_any_offset(v, index, offset + 1)

\* optimize_exit: the forward scan from `offset`: "remove", "keep" or "panic"
RECURSIVE exit_scan(_, _, _)
exit_scan(v, index, offset) ==
    IF ~(index + offset < Len(v)) THEN "keep"
    ELSE LET o == v[index + offset + 1]
             is_exit == o.op = "NamedBlackBox" /\ o.name = "exit"
         IN IF is_exit /\ offset > 1 THEN "remove"
            ELSE IF is_exit /\ debug_build /\ v[index + offset] # MovImm(rdi, 0)
                THEN "panic"                                  \* debug_assert_eq!
            ELSE IF control_or_io(o) THEN "keep"
            ELSE exit_scan(v, index, offset + 1)

RECURSIVE exit_from(_, _)
exit_from(v, index) ==
    IF ~(index < Len(v)) THEN v
    ELSE IF v[index + 1].op = "Label" \/ effects(v[index + 1]) = <<>>
            \/ control_or_io(v[index + 1])
         THEN exit_from(v, index + 1)
    ELSE LET verdict == exit_scan(v, index, 1)
         IN IF verdict = "panic" THEN PanicOps
            ELSE IF verdict = "remove"
                THEN exit_from(SubSeq(v, 1, index) \o SubSeq(v, index + 2, Len(v)), index)
            ELSE exit_from(v, index + 1)

optimize_exit(v) == exit_from(v, 0)

\* optimize_remove_dead_code: the scan for the next Label: <<ok, i>>
RECURSIVE dead_code_scan(_, _, _)
dead_code_scan(v, index, i) ==
    IF ~(index + i < Len(v)) THEN <<TRUE, i>>
    ELSE IF v[index + i + 1].op = "Label"
         THEN <<v[index + 1].l = v[index + i + 1].l, i>>
         ELSE dead_code_scan(v, index, i + 1)

RECURSIVE remove_dead_code_from(_, _, _)
remove_dead_code_from(v, index, result) ==
    IF ~(index < Len(v)) THEN result
    ELSE LET found == dead_code_scan(v, index, 1)
         IN IF v[index + 1].op = "Jump" /\ found[1] /\ found[2] > 1
            THEN remove_dead_code_from(v, index + found[2], result)
            ELSE remove_dead_code_from(v, index + 1, Append(result, v[index + 1]))

optimize_remove_dead_code(v) == remove_dead_code_from(v, 0, <<>>)

\* the forward scan asking for a flag writer before it asks for a reader
RECURSIVE nops_scan_writer_first(_, _, _)
nops_scan_writer_first(v, index, i) ==
    IF ~(index + i < Len(v)) THEN FALSE
    ELSE IF affects_zero_flag(v[index + i + 1]) THEN FALSE
    ELSE IF reads_zf(v[index + i + 1]) THEN TRUE
    ELSE nops_scan_writer_first(v, index, i + 1)

\* optimize_remove_nops: the forward scan deciding `required`
RECURSIVE nops_scan(_, _, _)
nops_scan(v, index, i) ==
    IF ~(index + i < Len(v)) THEN FALSE
    ELSE IF reads_zf(v[index + i + 1]) THEN TRUE
    ELSE IF affects_zero_flag(v[index + i + 1]) THEN FALSE
    ELSE nops_scan(v, index, i + 1)

RECURSIVE remove_nops_from(_, _)
remove_nops_from(v, index) ==
    IF ~(index < Len(v)) THEN v
    ELSE LET efs == effects(v[index + 1])
             required ==
                 IF efs = <<>> THEN TRUE
                 ELSE IF efs[1] = NOP THEN FALSE
                 ELSE IF efs[1].flags /\ ~(efs[1].registers \/ efs[1].control_flow)
                     THEN nops_scan(v, index, 1)
                 ELSE TRUE
         IN IF required THEN remove_nops_from(v, index + 1)
            ELSE remove_nops_from(SubSeq(v, 1, index) \o SubSeq(v, index + 2, Len(v)), index)

optimize_remove_nops(v) == remove_nops_from(v, 0)

\* optimize_dead_jumps: the backward scan `while index > neg_offset`: remove or not
RECURSIVE dead_jumps_scan(_, _, _)
dead_jumps_scan(v, index, neg_offset) ==
    IF ~(index > neg_offset) THEN FALSE
    ELSE IF affects_zero_flag(v[index - neg_offset + 1]) THEN FALSE
    ELSE IF v[index - neg_offset + 1].op = v[index + 1].op THEN TRUE
    ELSE dead_jumps_scan(v, index, neg_offset + 1)

RECURSIVE dead_jumps_from(_, _)
dead_jumps_from(v, index) ==
    IF ~(index < Len(v)) THEN v
    ELSE IF v[index + 1].op \in {"JumpZero", "JumpNonZero"} /\ dead_jumps_scan(v, index, 1)
         THEN dead_jumps_from(SubSeq(v, 1, index) \o SubSeq(v, index + 2, Len(v)), index)
         ELSE dead_jumps_from(v, index + 1)

optimize_dead_jumps(v) == dead_jumps_from(v, 0)

\* label_index: the first Label(label), -1 standing for unreachable!
label_index(v, label) ==
    LET at == {i \in 1..Len(v) : v[i] = Label(label)}
    IN IF at = {} THEN -1 ELSE Min(at) - 1

\* get_label!() without `next_label += 1`
jump_skip_recheck_same_name(n) == <<".jump_skip_recheck", 0>>

\* optimize_jump_skip_recheck: get_label!()
jump_skip_recheck_name(n) == <<".jump_skip_recheck", n>>

RECURSIVE jump_skip_recheck_from(_, _, _)
jump_skip_recheck_from(v, index, next_label) ==
    IF ~(index < Len(v)) THEN v
    ELSE IF v[index].op = "IsZeroPtr8" /\ v[index + 1].op \in {"JumpZero", "JumpNonZero"} THEN
        LET li == label_index(v, v[index + 1].l)
            opposite == IF v[index + 1].op = "JumpZero" THEN "JumpNonZero" ELSE "JumpZero"
            new_label == jump_skip_recheck_name(next_label)
        IN IF li < 0 THEN PanicOps
           ELSE IF li + 2 < Len(v) /\ v[li + 2] = IsZeroPtr8(v[index].r)
                   /\ v[li + 3].op = opposite
           THEN IF li < index /\ debug_build /\ ~(li + 3 < index)
                THEN PanicOps                                 \* debug_assert!
                ELSE jump_skip_recheck_from(
                        LET w == [v EXCEPT ![index + 1] = [@ EXCEPT !.l = new_label]]
                        IN SubSeq(w, 1, li + 3) \o <<Label(new_label)>>
                               \o SubSeq(w, li + 4, Len(w)),
                        IF li < index THEN index + 2 ELSE index + 1,
                        next_label + 1)
           ELSE jump_skip_recheck_from(v, index + 1, next_label)
    ELSE jump_skip_recheck_from(v, index + 1, next_label)

optimize_jump_skip_recheck(v) == jump_skip_recheck_from(v, 1, 0)


\* the decimal digits of a counter, as format!("{}", n) writes them
RECURSIVE decimal(_)
decimal(n) == IF n < 10 THEN <<n>> ELSE Append(decimal(n \div 10), n % 10)

\* String order (derive(Ord)) on two digit strings
RECURSIVE str_less(_, _)
str_less(a, b) ==
    IF b = <<>> THEN FALSE
    ELSE IF a = <<>> THEN TRUE
    ELSE IF Head(a) # Head(b) THEN Head(a) < Head(b)
    ELSE str_less(Tail(a), Tail(b))

\* derive(Ord) on two Data items of one name prefix: by name, then by bytes
data_less(x, y) ==
    IF x.name # y.name THEN str_less(decimal(x.name[2]), decimal(y.name[2]))
    ELSE str_less(x.bytes, y.bytes)

\* data.sort()
RECURSIVE sort_data(_)
sort_data(data) ==
    IF data = <<>> THEN <<>>
    ELSE LET least == CHOOSE i \in 1..Len(data) :
                          \A j \in 1..Len(data) : ~data_less(data[j], data[i]) \/ data[j] = data[i]
         IN <<data[least]>> \o sort_data(SubSeq(data, 1, least - 1)
                                             \o SubSeq(data, least + 1, Len(data)))

\* separate_data: <<ops, data>>
separate_data(v) ==
    <<SelectSeq(v, LAMBDA i : i.op # "Data"),
      sort_data(SelectSeq(v, LAMBDA i : i.op = "Data"))>>

\* move_data_to_end
move_data_to_end(v) == separate_data(v)[1] \o separate_data(v)[2]

(***************************************************************************)
(* optimizer.rs: the pass registry of optimize() and its scheduler         *)
(***************************************************************************)
\* the pass! declarations, in order; PassId(k) is position k (0-based)
Passes == <<
    [name |-> "optimize_remove_unused_labels", cleanup |-> <<>>],
    [name |-> "optimize_start_cells",          cleanup |-> <<0>>],
    [name |-> "optimize_zero_loop",            cleanup |-> <<>>],
    [name |-> "optimize_zero_flags",           cleanup |-> <<0>>],
    [name |-> "optimize_remove_nops",          cleanup |-> <<0>>],
    [name |-> "optimize_adjacent",             cleanup |-> <<4>>],
    [name |-> "optimize_adjancent_mem_movs",   cleanup |-> <<4, 2, 5>>],
    [name |-> "optimize_constant_output",      cleanup |-> <<>>],
    [name |-> "optimize_dead_jumps",           cleanup |-> <<0, 4>>],
    [name |-> "optimize_jump_skip_recheck",    cleanup |-> <<0, 8>>],
    [name |-> "optimize_remove_dead_code",     cleanup |-> <<0, 4>>],
    [name |-> "optimize_exit",                 cleanup |-> <<0, 8, 3, 4>>] >>

\* Pass.function
pass_function(name, v) ==
    CASE name = "optimize_remove_unused_labels" -> optimize_remove_unused_labels(v)
      [] name = "optimize_start_cells"          -> optimize_start_cells(v)
      [] name = "optimize_zero_loop"            -> optimize_zero_loop(v)
      [] name = "optimize_zero_flags"           -> optimize_zero_flags(v)
      [] name = "optimize_remove_nops"          -> optimize_remove_nops(v)
      [] name = "optimize_adjacent"             -> optimize_adjacent(v)
      [] name = "optimize_adjancent_mem_movs"   -> optimize_adjancent_mem_movs(v)
      [] name = "optimize_constant_output"      -> optimize_constant_output(v)
      [] name = "optimize_dead_jumps"           -> optimize_dead_jumps(v)
      [] name = "optimize_jump_skip_recheck"    -> optimize_jump_skip_recheck(v)
      [] name = "optimize_remove_dead_code"     -> optimize_remove_dead_code(v)
      [] name = "optimize_exit"                 -> optimize_exit(v)

\* `let mut queue: Vec<_> = optimizer.passes.iter().cloned().rev().collect();`
initial_queue == [k \in 1..Len(Passes) |-> Len(Passes) - k]

\* the cleanups put behind the passes that wait
push_cleanups_behind(q, cleanup) == cleanup \o q

\* `for pass_id in pass.cleanup { if queue.last() != Some(&p) { queue.push(p); } }`
RECURSIVE push_cleanups(_, _)
push_cleanups(q, cleanup) ==
    IF cleanup = <<>> THEN q
    ELSE push_cleanups(IF q # <<>> /\ q[Len(q)] = Head(cleanup) THEN q
                       ELSE Append(q, Head(cleanup)),
                       Tail(cleanup))

(***************************************************************************)
(* target_abi: the Linux and MacOS templates                               *)
(***************************************************************************)
CallEffects == Effects(TRUE, TRUE, FALSE, FALSE, TRUE)

\* Interface::get_label
interface_label(target, n) ==
    <<IF target = "Linux" THEN ".interface_linux" ELSE ".interface_macos", n>>

\* Operations::exit
abi_exit(target) ==
    IF target = "Linux"
    THEN <<BlackBox("add rsp, 30000", VOLATILE), MovImm(rdi, 0),
           NamedBlackBox("exit", "call exit", VOLATILE)>>
    ELSE <<MovImm(rdi, 0), BlackBox("call _exit", VOLATILE)>>

\* the read sequence with the branch around the end-of-file store inverted
read_byte_inverted(target, pointer, n) ==
    <<MovImm(rdi, 0), Mov(rsi, pointer), MovImm(rdx, 1),
      IF target = "Linux" THEN BlackBox("call read", CallEffects)
      ELSE NamedBlackBox("read", "call _read", CallEffects),
      IsZero(rax), JumpZero(interface_label(target, n)),
      MovPtr8Imm(rsi, 0), Label(interface_label(target, n))>>

\* Operations::read_byte, the n-th call
read_byte(target, pointer, n) ==
    <<MovImm(rdi, 0), Mov(rsi, pointer), MovImm(rdx, 1),
      IF target = "Linux" THEN BlackBox("call read", CallEffects)
      ELSE NamedBlackBox("read", "call _read", CallEffects),
      IsZero(rax), JumpNonZero(interface_label(target, n)),
      MovPtr8Imm(rsi, 0), Label(interface_label(target, n))>>

\* Operations::write_bytes
write_bytes(target, pointer, count) ==
    <<MovImm(rdi, 1), Mov(rsi, pointer), MovImm(rdx, count),
      NamedBlackBox("write", IF target = "Linux" THEN "call write" ELSE "call _write",
                    CallEffects)>>

\* impl Display for compiler::Label
label_name(l) == <<".label", l>>

\* Step::to_assembly; n is the ABI interface's next_label
Step_to_assembly(s, pointer, target, n) ==
    CASE s.op = "Next"     -> <<AddImm(pointer, s.n)>>
      [] s.op = "Prev"     -> <<SubImm(pointer, s.n)>>
      [] s.op = "Add"      -> <<AddPtr8Imm(pointer, s.n)>>
      [] s.op = "JumpTo"   -> <<Jump(label_name(s.label))>>
      [] s.op = "JumpToIf" -> <<IsZeroPtr8(pointer),
                                IF s.cond THEN JumpNonZero(label_name(s.label))
                                ELSE JumpZero(label_name(s.label))>>
      [] s.op = "Label"    -> <<Label(label_name(s.label))>>
      [] s.op = "Output"   -> write_bytes(target, pointer, 1)
      [] s.op = "Input"    -> read_byte(target, pointer, n)

\* State::to_assembly: the flat_map over the steps
RECURSIVE lower_steps(_, _, _)
lower_steps(steps, target, n) ==
    IF steps = <<>> THEN <<>>
    ELSE Step_to_assembly(Head(steps), rbx, target, n)
             \o lower_steps(Tail(steps), target,
                            IF Head(steps).op = "Input" THEN n + 1 ELSE n)

\* State::to_assembly: the vector handed to codegen::optimize (startup() is empty)
to_assembly_input(steps, target) == lower_steps(steps, target, 0) \o abi_exit(target)


(***************************************************************************)
(* compile_tokens, front end: the append loop, State::optimize             *)
(***************************************************************************)
MaxTokens == 3
MaxTape == 3
MaxOutput == 3

Programs == {t \in SeqsUpTo(Token, MaxTokens) : balance(t, 0)}

Idle == [status |-> "idle"]

InitCompile(progs, targets) ==
    /\ pc = "append"
    /\ abi \in targets
    /\ debug_build \in BOOLEAN
    /\ tokens \in progs
    /\ state = StateNew
    /\ intp = IntpNew
    /\ prev_steps = <<>>
    /\ ops = <<>> /\ queue = <<>> /\ prev_ops = <<>> /\ last_pass = "none" /\ runs = 0
    /\ input = <<>> /\ mach = Idle /\ ref = Idle /\ before = Idle /\ after = Idle

\* compile_tokens: `for token in tokens { state.append(token); }`
AppendToken ==
    /\ pc = "append"
    /\ state.consumed < Len(tokens)
    /\ state' = append(state, tokens[state.consumed + 1])
    /\ UNCHANGED <<pc, build, intp, prev_steps, backend, running>>

\* self.optimize_peephole_combine(), control going on at `then`
Peephole(then) ==
    /\ LET c == optimize_peephole_combine(state.steps)
       IN /\ prev_steps' = state.steps
          /\ IF c = <<PanicStep>>
             THEN pc' = "panicked" /\ UNCHANGED state
             ELSE pc' = then /\ state' = [state EXCEPT !.steps = c]
    /\ UNCHANGED <<build, intp, backend, running>>

\* State::optimize, first half: self.optimize_peephole_combine()
PeepholeCombine ==
    /\ pc = "append"
    /\ state.consumed = Len(tokens)
    /\ Peephole("startup")

\* the model stops following an evaluation that outgrows its bounds
OutOfBounds(st) ==
    \/ Len(st.tape) > MaxTape
    \/ st.pointer > MaxTape
    \/ Len(st.output) > MaxOutput

\* optimize_startup: one iteration of `while !intp.done() { if !intp.step() { break; } }`
StartupStep ==
    /\ pc = "startup"
    /\ intp.status = "run"
    /\ ~done(state.steps, intp)
    /\ LET next == step(state.steps, intp)
       IN IF OutOfBounds(next)
          THEN pc' = "cutoff" /\ UNCHANGED intp
          ELSE /\ intp' = next
               /\ pc' = IF next.status = "panic" THEN "panicked" ELSE "startup"
    /\ UNCHANGED <<build, state, prev_steps, backend, running>>

\* optimize_startup: after the loop, the steps are replaced
StartupEmit ==
    /\ pc = "startup"
    /\ done(state.steps, intp) \/ intp.status = "blocked"
    /\ prev_steps' = state.steps
    /\ state' = startup_emit(state, intp)
    /\ pc' = "lower"
    /\ UNCHANGED <<build, intp, backend, running>>

NextFront == AppendToken \/ PeepholeCombine \/ StartupStep \/ StartupEmit

ABIs == {"Linux", "MacOS"}

SpecFront == InitCompile(Programs, ABIs) /\ [][NextFront]_vars /\ WF_vars(NextFront)

(***************************************************************************)
(* compile_tokens, back end: State::to_assembly and codegen::optimize      *)
(***************************************************************************)
\* State::to_assembly: the lowered vector enters codegen::optimize
Lower ==
    /\ pc = "lower"
    /\ ops' = to_assembly_input(state.steps, abi)
    /\ queue' = initial_queue
    /\ prev_ops' = <<>> /\ last_pass' = "none" /\ runs' = 0
    /\ pc' = "optimize"
    /\ UNCHANGED <<build, frontend, running>>

\* codegen::optimize: one iteration of `while let Some(pass) = queue.pop()`
RunPass ==
    /\ pc = "optimize"
    /\ queue # <<>>
    /\ LET pass == Passes[queue[Len(queue)] + 1]
           out  == pass_function(pass.name, ops)
       IN /\ prev_ops' = ops
          /\ last_pass' = pass.name
          /\ runs' = runs + 1
          /\ IF out = PanicOps
             THEN /\ pc' = "panicked"
                  /\ queue' = SubSeq(queue, 1, Len(queue) - 1)
                  /\ UNCHANGED ops
             ELSE /\ ops' = move_data_to_end(out)
                  /\ queue' = push_cleanups(SubSeq(queue, 1, Len(queue) - 1), pass.cleanup)
                  /\ pc' = "optimize"
    /\ UNCHANGED <<build, frontend, running>>

(***************************************************************************)
(* interpreter.rs: the reference interpreter                               *)
(***************************************************************************)
MaxInput == 2
InputBytes == {0, 1, 255}

\* the stdin contents tried for a program; one that never reads gets none
InputsFor(ts) ==
    IF \E k \in 1..Len(ts) : ts[k] = "," THEN SeqsUpTo(InputBytes, MaxInput) ELSE {<<>>}

\* Interpreter::new, with the IO it runs against: `inp` is what is left on
\* stdin, `out` what was written
RefNew(inp) ==
    [status |-> "run", index |-> 0, cells |-> <<0>>, pointer |-> 0,
     out |-> <<>>, inp |-> inp]

\* Interpreter::run, Mode::ScrollForwards: the index of the matching `]`
RECURSIVE scroll_forwards(_, _, _)
scroll_forwards(ts, index, level) ==
    IF level > 0
    THEN scroll_forwards(ts, index + 1,
             IF ts[index + 2] = "[" THEN level + 1
             ELSE IF ts[index + 2] = "]" THEN level - 1 ELSE level)
    ELSE index

\* Interpreter::run, Mode::ScrollBackwards: the index of the matching `[`
RECURSIVE scroll_backwards(_, _, _)
scroll_backwards(ts, index, level) ==
    IF level > 0
    THEN scroll_backwards(ts, index - 1,
             IF ts[index] = "]" THEN level + 1
             ELSE IF ts[index] = "[" THEN level - 1 ELSE level)
    ELSE index

\* IO::read against a byte stream: the next byte, 0 at end of input
io_read(inp) == IF inp = <<>> THEN 0 ELSE Head(inp)

\* Interpreter::run: one iteration of `while index < tokens.len()` (Interpreter::step
\* inlined); the loop's exit is the status "done"
ref_step(ts, r) ==
    IF ~(r.index < Len(ts)) THEN [r EXCEPT !.status = "done"]
    ELSE LET token == ts[r.index + 1]
             cell  == r.cells[r.pointer + 1]
             normal(t) == [t EXCEPT !.index = @ + 1]
         IN CASE token = ">" ->
                  IF r.pointer + 1 >= MaxTape + 1 THEN [r EXCEPT !.status = "cutoff"]
                  ELSE normal([r EXCEPT !.pointer = @ + 1,
                                        !.cells = IF r.pointer + 1 = Len(@)
                                                  THEN Append(@, 0) ELSE @])
              [] token = "<" ->
                  IF r.pointer = 0 THEN [r EXCEPT !.status = "panic"]
                  ELSE normal([r EXCEPT !.pointer = @ - 1])
              [] token = "+" ->
                  normal([r EXCEPT !.cells[r.pointer + 1] = (@ + 1) % U8Mod])
              [] token = "-" ->
                  normal([r EXCEPT !.cells[r.pointer + 1] = (@ + U8Mod - 1) % U8Mod])
              [] token = "." ->
                  IF Len(r.out) >= MaxOutput THEN [r EXCEPT !.status = "cutoff"]
                  ELSE normal([r EXCEPT !.out = Append(@, cell)])
              [] token = "," ->
                  normal([r EXCEPT !.cells[r.pointer + 1] = io_read(r.inp),
                                   !.inp = IF @ = <<>> THEN @ ELSE Tail(@)])
              [] token = "[" ->
                  IF cell = 0 THEN [r EXCEPT !.index = scroll_forwards(ts, r.index, 1)]
                  ELSE normal(r)
              [] token = "]" ->
                  IF cell # 0 THEN [r EXCEPT !.index = scroll_backwards(ts, r.index, 1)]
                  ELSE normal(r)

(***************************************************************************)
(* The emitted program on an x86-64 machine (Instruction::to_source gives  *)
(* the mnemonic each Instruction stands for).  A register holds an address *)
(* into the tape, an immediate, the address of a data item, or an unknown  *)
(* value; the zero flag is "set", "clear" or unknown ("junk").  The libc   *)
(* calls leave their argument registers as they found them and the flags   *)
(* unknown.  Using an unknown value or leaving the tape downwards ends the *)
(* run as "undefined"; leaving the modelled part of the tape upwards ends  *)
(* it as "cutoff".                                                         *)
(***************************************************************************)
RegNames    == {rdi, rsi, rdx, rax, rbx}
Junk        == <<"junk", 0>>
TapeAddr(n) == <<"tape", n>>
Imm(v)      == <<"imm", v>>
DataAddr(n) == <<"data", n>>

\* the cells of the 30000-cell tape the machine model keeps
MemSize == MaxTape + 1

\* the state after the header of State::to_assembly: tape zeroed, $pointer = rsp
MachNew(inp) ==
    [status |-> "run", ip |-> 0,
     regs |-> [r \in RegNames |-> IF r = rbx THEN TapeAddr(0) ELSE Junk],
     zf |-> "clear", mem |-> [k \in 1..MemSize |-> 0], out |-> <<>>, inp |-> inp]

\* how an access of `count` bytes through register value `a` ends when it cannot be done
fault(a, count) ==
    IF a[1] # "tape" \/ a[2] >= U64Mod \div 2 THEN "undefined" ELSE "cutoff"

in_tape(a, count) == a[1] = "tape" /\ a[2] + count <= MemSize

\* a store of the bytes bs at the address in register value a
store(m, a, bs) ==
    IF ~in_tape(a, Len(bs)) THEN [m EXCEPT !.status = fault(a, Len(bs))]
    ELSE [m EXCEPT !.mem = [k \in 1..MemSize |->
                               IF k - 1 >= a[2] /\ k - 1 < a[2] + Len(bs)
                               THEN bs[k - a[2]] ELSE @[k]],
                   !.ip = @ + 1]

zf_of(is_zero) == IF is_zero THEN "set" ELSE "clear"

\* add/sub/inc/dec on a register: the new value and the zero flag
reg_add(m, r, delta) ==
    LET a == m.regs[r]
        sum == (a[2] + delta) % U64Mod
    IN IF a[1] = "tape" THEN [m EXCEPT !.regs[r] = TapeAddr(sum), !.zf = "clear", !.ip = @ + 1]
       ELSE IF a[1] = "imm" THEN [m EXCEPT !.regs[r] = Imm(sum), !.zf = zf_of(sum = 0),
                                            !.ip = @ + 1]
       ELSE [m EXCEPT !.regs[r] = Junk, !.zf = "junk", !.ip = @ + 1]

\* the position of `label:` in the body; a jump to a missing label cannot be assembled
jump(m, body, label) ==
    LET at == {k \in 1..Len(body) : body[k] = Label(label)}
    IN IF at = {} THEN [m EXCEPT !.status = "undefined"]
       ELSE [m EXCEPT !.ip = Min(at) - 1]

\* write(1, rsi, rdx)
call_write(m, data) ==
    LET a == m.regs[rsi]
        n == m.regs[rdx]
        from_data == {k \in 1..Len(data) : data[k].name = a[2]}
        bytes == IF a[1] = "tape" THEN SubSeq(m.mem, a[2] + 1, a[2] + n[2])
                 ELSE SubSeq(data[Min(from_data)].bytes, 1, n[2])
    IN IF m.regs[rdi] # Imm(1) \/ n[1] # "imm" \/ a[1] \notin {"tape", "data"}
       THEN [m EXCEPT !.status = "undefined"]
       ELSE IF a[1] = "tape" /\ ~in_tape(a, n[2]) THEN [m EXCEPT !.status = fault(a, n[2])]
       ELSE IF a[1] = "data" /\ (from_data = {} \/ n[2] > Len(data[Min(from_data)].bytes))
            THEN [m EXCEPT !.status = "undefined"]
       ELSE IF Len(m.out) + n[2] > MaxOutput THEN [m EXCEPT !.status = "cutoff"]
       ELSE [m EXCEPT !.out = @ \o bytes, !.regs[rax] = Imm(n[2]), !.zf = "junk",
                      !.ip = @ + 1]

\* read(0, rsi, 1): one byte stored and 1 returned, or 0 returned at end of input
call_read(m) ==
    LET a == m.regs[rsi]
    IN IF m.regs[rdi] # Imm(0) \/ m.regs[rdx] # Imm(1) \/ a[1] # "tape"
       THEN [m EXCEPT !.status = "undefined"]
       ELSE IF ~in_tape(a, 1) THEN [m EXCEPT !.status = fault(a, 1)]
       ELSE IF m.inp = <<>>
            THEN [m EXCEPT !.regs[rax] = Imm(0), !.zf = "junk", !.ip = @ + 1]
       ELSE [store(m, a, <<Head(m.inp)>>) EXCEPT !.inp = Tail(@), !.regs[rax] = Imm(1),
                                                  !.zf = "junk"]

\* one instruction of the body
exec(body, data, m) ==
    IF ~(m.ip < Len(body)) THEN [m EXCEPT !.status = "undefined"]
    ELSE LET i == body[m.ip + 1]
             next(t) == [t EXCEPT !.ip = @ + 1]
         IN CASE i.op \in {"BlackBox", "NamedBlackBox"} ->
                  ( CASE i.src = "add rsp, 30000" -> next([m EXCEPT !.zf = "clear"])
                      [] i.src \in {"call exit", "call _exit"} ->
                           [m EXCEPT !.status = IF m.regs[rdi] = Imm(0) THEN "exited"
                                                ELSE "undefined"]
                      [] i.src \in {"call write", "call _write"} -> call_write(m, data)
                      [] i.src \in {"call read", "call _read"} -> call_read(m)
                      [] OTHER -> [m EXCEPT !.status = "undefined"] )
              [] i.op = "MovImm" ->
                  next([m EXCEPT !.regs[i.r] = Imm(i.v),
                                 !.zf = IF i.v = 0 THEN "set" ELSE @])
              [] i.op = "MovImmVar" -> next([m EXCEPT !.regs[i.r] = DataAddr(i.name)])
              [] i.op = "Mov" -> next([m EXCEPT !.regs[i.r] = m.regs[i.r2]])
              [] i.op = "MovPtr8Imm" -> store(m, m.regs[i.r], <<i.v>>)
              [] i.op \in {"MovPtr16Imm", "MovPtr32Imm", "MovPtr64Imm"} ->
                  store(m, m.regs[i.r], i.d)
              [] i.op = "AddImm" -> reg_add(m, i.r, i.v)
              [] i.op = "SubImm" -> reg_add(m, i.r, U64Mod - i.v)
              [] i.op = "AddPtr8Imm" ->
                  LET a == m.regs[i.r] IN
                  IF ~in_tape(a, 1) THEN [m EXCEPT !.status = fault(a, 1)]
                  ELSE LET sum == (m.mem[a[2] + 1] + i.v) % U8Mod
                       IN [store(m, a, <<sum>>) EXCEPT !.zf = zf_of(sum = 0)]
              [] i.op = "IsZero" ->
                  LET a == m.regs[i.r] IN
                  next([m EXCEPT !.zf = IF a[1] = "imm" THEN zf_of(a[2] = 0)
                                        ELSE IF a[1] = "junk" THEN "junk" ELSE "clear"])
              [] i.op = "IsZeroPtr8" ->
                  LET a == m.regs[i.r] IN
                  IF ~in_tape(a, 1) THEN [m EXCEPT !.status = fault(a, 1)]
                  ELSE next([m EXCEPT !.zf = zf_of(m.mem[a[2] + 1] = 0)])
              [] i.op \in {"JumpZero", "JumpNonZero"} ->
                  IF m.zf = "junk" THEN [m EXCEPT !.status = "undefined"]
                  ELSE IF (m.zf = "set") = (i.op = "JumpZero") THEN next(jump(m, body, i.l))
                  ELSE next(m)
              [] i.op = "Jump" -> next(jump(m, body, i.l))
              [] i.op = "Label" -> next(m)
              [] OTHER -> [m EXCEPT !.status = "undefined"]

(***************************************************************************)
(* Running the emitted program against the reference interpreter           *)
(***************************************************************************)
\* the test harness: the reference interpreter is started on the source tokens
StartReference ==
    /\ pc = "optimize"
    /\ queue = <<>>
    /\ input' \in InputsFor(tokens)
    /\ ref' = RefNew(input')
    /\ pc' = "reference"
    /\ UNCHANGED <<build, frontend, backend, mach, stepruns>>

RefStep ==
    /\ pc = "reference"
    /\ ref.status = "run"
    /\ ref' = ref_step(tokens, ref)
    /\ UNCHANGED <<pc, build, frontend, backend, input, mach, stepruns>>

\* the emitted program is started on the same input
StartMachine ==
    /\ pc = "reference"
    /\ ref.status # "run"
    /\ mach' = MachNew(input)
    /\ pc' = "execute"
    /\ UNCHANGED <<build, frontend, backend, input, ref, stepruns>>

MachStep ==
    /\ pc = "execute"
    /\ mach.status = "run"
    /\ LET parts == separate_data(ops)
           m     == exec(parts[1], parts[2], mach)
       IN /\ mach' = m
          /\ pc' = IF m.status = "run" THEN "execute" ELSE "compared"
    /\ UNCHANGED <<build, frontend, backend, input, ref, stepruns>>

\* programs kept beside the exhaustive ones: the scenarios of the documentation
\* and the tests, and regressions
ScenarioPrograms ==
    { <<",", "[", ".", ",", "]">>,
      <<"+", "[", "-", "]", ".">>,
      <<"+", ">", ">", "+", ",", "<", "<", ".">>,
      <<">", ">", "+", "<", "<", ">", ".">> }

PipelinePrograms == Programs \cup ScenarioPrograms

NextPipeline ==
    \/ AppendToken \/ PeepholeCombine \/ StartupStep \/ StartupEmit
    \/ Lower \/ RunPass
    \/ StartReference \/ RefStep \/ StartMachine \/ MachStep

SpecPipeline == InitCompile(PipelinePrograms, ABIs) /\ [][NextPipeline]_vars

(***************************************************************************)
(* One optimizer pass applied on its own to a small instruction vector     *)
(***************************************************************************)
MaxOps == 3
MaxRun == 9

InitPass(vectors) ==
    /\ pc = "apply"
    /\ abi = "Linux"
    /\ debug_build \in BOOLEAN
    /\ tokens = <<>>
    /\ state = StateNew /\ intp = IntpNew /\ prev_steps = <<>>
    /\ ops \in vectors
    /\ queue = <<>> /\ prev_ops = <<>> /\ last_pass = "none" /\ runs = 0
    /\ input = <<>> /\ mach = Idle /\ ref = Idle /\ before = Idle /\ after = Idle

\* `ops = (pass.function)(ops)` for one pass
ApplyPass(name) ==
    /\ pc = "apply"
    /\ prev_ops' = ops
    /\ ops' = pass_function(name, ops)
    /\ last_pass' = name
    /\ runs' = runs + 1
    /\ pc' = "applied"
    /\ UNCHANGED <<build, frontend, queue, running>>

(***************************************************************************)
(* optimize_start_cells on its own                                         *)
(***************************************************************************)
StartCellsVectors ==
    SeqsUpTo({AddPtr8Imm(rbx, 0), AddPtr8Imm(rbx, 5), AddImm(rbx, 1), MovImm(rdi, 0)},
             MaxOps)

StartCells == ApplyPass("optimize_start_cells")

SpecStartCells == InitPass(StartCellsVectors) /\ [][StartCells]_vars

\* the leading run of AddPtr8Imm/AddImm instructions of v ends before this position
RECURSIVE leading_run_end(_, _)
leading_run_end(v, k) ==
    IF k <= Len(v) /\ v[k].op \in {"AddPtr8Imm", "AddImm"}
    THEN leading_run_end(v, k + 1) ELSE k

\* what C7 says the pass returns for v
C7_Expected(v) ==
    LET e == leading_run_end(v, 1)
        lead == SelectSeq(SubSeq(v, 1, e - 1),
                          LAMBDA i : ~(i.op = "AddPtr8Imm" /\ i.v = 0))
        rewritten == [k \in 1..Len(lead) |->
                         IF lead[k].op = "AddPtr8Imm"
                         THEN MovPtr8Imm(lead[k].r, lead[k].v) ELSE lead[k]]
    IN rewritten \o SubSeq(v, e, Len(v))

\* C7: optimize_start_cells turns AddPtr8Imm(rbx,5); AddPtr8Imm(rbx,0); AddImm(rbx,1)
\* into MovPtr8Imm(rbx,5); AddImm(rbx,1); in general, within the leading run of
\* AddPtr8Imm/AddImm, every AddPtr8Imm(r,n) with n # 0 becomes MovPtr8Imm(r,n), every
\* AddPtr8Imm(r,0) is the instruction removed, and nothing else is removed or reordered.
C7_StartCellsRewritesInPlace ==
    pc = "applied" =>
        /\ ops = C7_Expected(prev_ops)
        /\ prev_ops = <<AddPtr8Imm(rbx, 5), AddPtr8Imm(rbx, 0), AddImm(rbx, 1)>>
               => ops = <<MovPtr8Imm(rbx, 5), AddImm(rbx, 1)>>

\* the example of C7 has been through the pass
C7_ExampleApplied ==
    /\ pc = "applied"
    /\ prev_ops = <<AddPtr8Imm(rbx, 5), AddPtr8Imm(rbx, 0), AddImm(rbx, 1)>>
    /\ ops = <<AddPtr8Imm(rbx, 0), AddImm(rbx, 1)>>

(***************************************************************************)
(* optimize_adjancent_mem_movs on its own                                  *)
(***************************************************************************)
\* a run of same-register byte stores between two other instructions
MemMovVectors ==
    { pre \o [k \in 1..Len(bs) |-> MovPtr8Imm(rbx, bs[k])] \o post :
        pre \in {<<>>, <<MovPtr8Imm(rsi, 7)>>},
        bs \in SeqsUpTo({1, 2}, MaxRun),
        post \in {<<>>, <<AddImm(rbx, 1)>>, <<MovPtr8Imm(rsi, 7), MovPtr8Imm(rsi, 8)>>} }

AdjancentMemMovs == ApplyPass("optimize_adjancent_mem_movs")

SpecMemMovs == InitPass(MemMovVectors) /\ [][AdjancentMemMovs]_vars

\* the length of the run of MovPtr8Imm on one register that v starts with
RECURSIVE run_length(_, _)
run_length(v, k) ==
    IF k < Len(v) /\ v[k + 1].op = "MovPtr8Imm" /\ v[k + 1].r = v[1].r
    THEN run_length(v, k + 1) ELSE k

\* the w-byte immediate store whose byte i is b[i]
wide_store(r, b) ==
    CASE Len(b) = 2 -> MovPtr16Imm(r, b)
      [] Len(b) = 4 -> MovPtr32Imm(r, b)
      [] Len(b) = 8 -> MovPtr64Imm(r, b)

\* what C9 says the pass returns for v
RECURSIVE C9_Expected(_)
C9_Expected(v) ==
    IF v = <<>> THEN <<>>
    ELSE IF v[1].op = "MovPtr8Imm" /\ run_length(v, 1) >= 2
    THEN LET n == run_length(v, 1)
             w == Max({q \in {2, 4, 8} : q <= Min({n, 8})})
         IN <<wide_store(v[1].r, [i \in 1..w |-> v[i].v]), AddImm(v[1].r, w)>>
                \o C9_Expected(SubSeq(v, w + 1, Len(v)))
    ELSE <<v[1]>> \o C9_Expected(Tail(v))

\* C9: a run of N >= 2 consecutive MovPtr8Imm(r, b_i) on one register has its first w
\* stores, w the largest power of two <= min(N, 8), replaced by one w-byte store whose
\* byte i (little-endian) is b_i, followed by AddImm(r, w); the other N - w stores of
\* the run are processed again as a new run and none is lost.
C9_RunsPackedLittleEndian ==
    pc = "applied" => ops = C9_Expected(prev_ops)

\* a run of nine stores became an 8-byte store, the pointer move and the ninth store
C9_NineStoresPacked ==
    /\ pc = "applied"
    /\ Len(prev_ops) = 9
    /\ \A k \in 1..9 : prev_ops[k] = MovPtr8Imm(rbx, IF k = 2 THEN 2 ELSE 1)
    /\ ops = <<MovPtr64Imm(rbx, <<1, 2, 1, 1, 1, 1, 1, 1>>), AddImm(rbx, 8),
               MovPtr8Imm(rbx, 1)>>

(***************************************************************************)
(* optimize_zero_loop on its own, and the loop it replaces on the machine  *)
(***************************************************************************)
ZeroLoopVectors ==
    SeqsUpTo({Label(label_name(0)), Label(label_name(1)), AddPtr8Imm(rbx, 1),
              AddPtr8Imm(rbx, 255), AddPtr8Imm(rbx, 2), JumpNonZero(label_name(0)),
              JumpZero(label_name(0))},
             MaxOps)

\* Label(L); AddPtr8Imm(r, 1 or 255); JumpNonZero(L) at positions k, k+1, k+2 of v
is_zero_loop(v, k) ==
    /\ k + 2 <= Len(v)
    /\ v[k].op = "Label"
    /\ v[k + 1].op = "AddPtr8Imm" /\ v[k + 1].v \in {1, 255}
    /\ v[k + 2] = JumpNonZero(v[k].l)

ZeroLoop == ApplyPass("optimize_zero_loop")

\* a fragment run to its end (a whole program never runs past its exit call)
exec_fragment(body, m) ==
    IF m.ip = Len(body) THEN [m EXCEPT !.status = "end"] ELSE exec(body, <<>>, m)

\* the loop that was replaced is entered with any value in the current cell
LoopStart ==
    /\ pc = "applied"
    /\ Len(prev_ops) = 3 /\ is_zero_loop(prev_ops, 1)
    /\ \E value \in 0..(U8Mod - 1) :
           mach' = [MachNew(<<>>) EXCEPT !.mem[1] = value]
    /\ pc' = "loop"
    /\ UNCHANGED <<build, frontend, backend, input, ref, stepruns>>

LoopStep ==
    /\ pc = "loop"
    /\ mach.status = "run"
    /\ mach' = exec_fragment(prev_ops, mach)
    /\ UNCHANGED <<pc, build, frontend, backend, input, ref, stepruns>>

NextZeroLoop == ZeroLoop \/ LoopStart \/ LoopStep

SpecZeroLoop ==
    InitPass(ZeroLoopVectors) /\ [][NextZeroLoop]_vars /\ WF_vars(NextZeroLoop)

\* v with every zero-loop triple replaced by the one store
RECURSIVE C10_Replaced(_)
C10_Replaced(v) ==
    IF v = <<>> THEN <<>>
    ELSE IF is_zero_loop(v, 1)
    THEN <<MovPtr8Imm(v[2].r, 0)>> \o C10_Replaced(SubSeq(v, 4, Len(v)))
    ELSE <<v[1]>> \o C10_Replaced(Tail(v))

\* C10: optimize_zero_loop replaces every triple Label(L); AddPtr8Imm(r, 1 or 255);
\* JumpNonZero(L) by MovPtr8Imm(r, 0) and nothing else, and the replaced loop, entered
\* with any 8-bit value in the cell, runs to its end and leaves the cell at 0.
C10_ZeroLoopIsStoreOfZero ==
    /\ [](pc = "applied" => ops = C10_Replaced(prev_ops))
    /\ [](pc = "loop" => mach.status \in {"run", "end"})
    /\ [](pc = "loop" /\ mach.status = "end" => mach.mem[1] = 0)
    /\ (pc = "loop" ~> (mach.status = "end"))

\* the decrementing loop, entered with some value, has reached its end
C10_LoopRanToZero ==
    /\ pc = "loop"
    /\ prev_ops = <<Label(label_name(0)), AddPtr8Imm(rbx, 255), JumpNonZero(label_name(0))>>
    /\ ops = <<MovPtr8Imm(rbx, 0)>>
    /\ mach.status = "end"
    /\ mach.mem[1] = 0

(***************************************************************************)
(* Claims about the whole pipeline                                         *)
(***************************************************************************)
\* every jump of v has its label in v
C8_Resolved(v) ==
    \A k \in 1..Len(v) :
        v[k].op \in {"Jump", "JumpZero", "JumpNonZero"}
            => \E j \in 1..Len(v) : v[j] = Label(v[k].l)

\* v without the labels no jump of v names
C8_WithoutUnusedLabels(v) ==
    SelectSeq(v, LAMBDA i :
        i.op # "Label"
        \/ \E k \in 1..Len(v) : v[k].op \in {"Jump", "JumpZero", "JumpNonZero"}
                                 /\ v[k].l = i.l)

\* C8: in the stream handed to the scheduler, after every pass execution and in the
\* emitted program, every Jump(L), JumpZero(L) and JumpNonZero(L) has a Label(L) in the
\* stream; optimize_remove_unused_labels removes exactly the labels no jump names and
\* leaves every other instruction unchanged and in order.
C8_EveryJumpHasItsLabel ==
    /\ pc \in {"optimize", "reference", "execute", "compared"} => C8_Resolved(ops)
    /\ (pc # "panicked" /\ last_pass = "optimize_remove_unused_labels")
           => ops = C8_WithoutUnusedLabels(prev_ops)

\* remove_unused_labels has dropped an unused label and kept a used one
C8_LabelDroppedLabelKept ==
    /\ pc = "optimize"
    /\ last_pass = "optimize_remove_unused_labels"
    /\ Len(ops) < Len(prev_ops)
    /\ \E k \in 1..Len(ops) : ops[k].op = "Label"
    /\ \E k \in 1..Len(ops) : ops[k].op = "JumpNonZero"

\* C1: for every bracket-balanced token sequence, each ABI and every input, the program
\* compile_tokens emits, run on a zeroed tape, consumes the input and writes exactly
\* the bytes the reference interpreter consumes and writes for the same tokens: when
\* the reference run ends, the compiled program has exited with the same output and
\* the same input left.
C1_CompiledMatchesReference ==
    (pc = "compared" /\ ref.status = "done")
        => /\ mach.status = "exited"
           /\ mach.out = ref.out
           /\ mach.inp = ref.inp

\* both ran to their end on a program that reads and writes
C1_BothRanToTheEnd ==
    /\ pc = "compared"
    /\ ref.status = "done" /\ mach.status = "exited"
    /\ tokens = <<",", "[", ".", ",", "]">>
    /\ input = <<1, 255>>
    /\ mach.out = <<1, 255>> /\ ref.out = <<1, 255>>

(***************************************************************************)
(* codegen::optimize on its own: the scheduler on small instruction        *)
(* vectors, whatever their origin                                          *)
(***************************************************************************)
OptimizeVectors ==
    SeqsUpTo({IsZeroPtr8(rbx), AddPtr8Imm(rbx, 1), AddPtr8Imm(rbx, 0), AddImm(rbx, 1),
              MovPtr8Imm(rbx, 1), Label(label_name(0)), JumpNonZero(label_name(0)),
              Jump(label_name(0)), MovImm(rdi, 0),
              NamedBlackBox("exit", "call exit", VOLATILE)},
             MaxOps)

InitOptimize ==
    /\ pc = "optimize"
    /\ abi = "Linux"
    /\ debug_build \in BOOLEAN
    /\ tokens = <<>>
    /\ state = StateNew /\ intp = IntpNew /\ prev_steps = <<>>
    /\ ops \in OptimizeVectors
    /\ queue = initial_queue
    /\ prev_ops = <<>> /\ last_pass = "none" /\ runs = 0
    /\ input = <<>> /\ mach = Idle /\ ref = Idle /\ before = Idle /\ after = Idle

SpecOptimize == InitOptimize /\ [][RunPass]_vars /\ WF_vars(RunPass)

\* the executions pass p can still cause: its own and those of its cleanups
RECURSIVE C3_Cost(_)
C3_Cost(p) ==
    LET c == Passes[p + 1].cleanup
        RECURSIVE sum(_)
        sum(k) == IF k = 0 THEN 0 ELSE C3_Cost(c[k]) + sum(k - 1)
    IN 1 + sum(Len(c))

\* the executions a queue can still cause
RECURSIVE C3_Pending(_)
C3_Pending(q) == IF q = <<>> THEN 0 ELSE C3_Cost(Head(q)) + C3_Pending(Tail(q))

\* C3: the scheduler terminates for every input vector: from the queue seeded with the
\* 12 passes the loop keeps running until the queue is empty, and the executions done
\* plus those the queue can still cause never exceed the constant the cleanup lists
\* give for the seeded queue, whatever the passes do to the instructions.
C3_QueueDrainsWithinBound ==
    /\ runs + C3_Pending(queue) <= C3_Pending(initial_queue)
    /\ pc = "optimize"

\* the queue has drained after more executions than there are passes
C3_QueueDrained ==
    /\ pc = "optimize"
    /\ queue = <<>>
    /\ runs > Len(Passes)

(***************************************************************************)
(* Executions of Step sequences: StepInterpreter::step, with an Input step *)
(* storing the next input byte (0 at end of input) in the current cell as  *)
(* the lowered read_byte sequence and the reference interpreter do         *)
(***************************************************************************)
MaxStart == 2
MaxObs == 6

\* a cell overwritten (Tape::add of the difference)
TapeSet(tape, index, value) ==
    TapeAdd(tape, index, (value + U8Mod - TapeGet(tape, index)) % U8Mod)

\* an execution about to start at the first step; `watch` says what it records
RunNew(inp, pointer, watch) ==
    [status |-> "run", index |-> 0, tape |-> <<>>, pointer |-> pointer,
     output |-> <<>>, inp |-> inp, obs |-> <<>>, watch |-> watch]

\* what an execution records when it is about to execute s: with watch "all", every
\* Input, Output, Label and jump with the tape and the pointer; with watch "io", every
\* byte written and, at every Input, the tape and the pointer
observe(s, st) ==
    IF st.watch = "all" /\ s.op \in {"Input", "Output", "Label", "JumpTo", "JumpToIf"}
        THEN <<<<s, TapeTrim(st.tape), st.pointer>>>>
    ELSE IF st.watch = "io" /\ s.op = "Input"
        THEN <<<<"Input", TapeTrim(st.tape), st.pointer>>>>
    ELSE IF st.watch = "io" /\ s.op = "Output"
        THEN <<<<"Output", TapeGet(st.tape, st.pointer)>>>>
    ELSE <<>>

\* one step of the execution of `steps`
run_io(steps, st) ==
    IF done(steps, st) THEN [st EXCEPT !.status = "done"]
    ELSE LET s == steps[st.index + 1]
             seen == [st EXCEPT !.obs = @ \o observe(s, st)]
             next == IF s.op = "Input"
                     THEN [seen EXCEPT !.tape = TapeSet(@, st.pointer, io_read(st.inp)),
                                       !.inp = IF @ = <<>> THEN @ ELSE Tail(@),
                                       !.index = @ + 1]
                     ELSE step(steps, seen)
         IN IF Len(seen.obs) > MaxObs \/ OutOfBounds(next)
            THEN [st EXCEPT !.status = "cutoff"]
            ELSE next

\* both sequences are started on the same input, tape and pointer
StartRuns(pointers, inputs, watch) ==
    /\ \E p \in pointers, i \in inputs :
          /\ input' = i
          /\ before' = RunNew(i, p, watch)
          /\ after' = RunNew(i, p, watch)
    /\ pc' = "run_before"
    /\ UNCHANGED <<build, frontend, backend, mach, ref>>

StepBefore ==
    /\ pc = "run_before"
    /\ before' = run_io(prev_steps, before)
    /\ pc' = IF before'.status = "run" THEN "run_before" ELSE "run_after"
    /\ UNCHANGED <<build, frontend, backend, input, mach, ref, after>>

StepAfter ==
    /\ pc = "run_after"
    /\ after' = run_io(state.steps, after)
    /\ pc' = IF after'.status = "run" THEN "run_after" ELSE "compared"
    /\ UNCHANGED <<build, frontend, backend, input, mach, ref, before>>

no_input(steps) == \A k \in 1..Len(steps) : steps[k].op # "Input"

(***************************************************************************)
(* optimize_peephole_combine on its own                                    *)
(***************************************************************************)
StepVectors ==
    SeqsUpTo({StepNext(1), StepPrev(1), StepPrev(2), StepAdd(1), StepAdd(255),
              StepOutput, StepInput, StepLabel(0)}, MaxOps)
        \cup {append_all(StateNew, t).steps : t \in Programs}

InitPeephole ==
    /\ pc = "peephole"
    /\ abi = "Linux"
    /\ debug_build \in BOOLEAN
    /\ tokens = <<>>
    /\ \E s \in StepVectors : state = [StateNew EXCEPT !.steps = s]
    /\ intp = IntpNew /\ prev_steps = <<>>
    /\ ops = <<>> /\ queue = <<>> /\ prev_ops = <<>> /\ last_pass = "none" /\ runs = 0
    /\ input = <<>> /\ mach = Idle /\ ref = Idle /\ before = Idle /\ after = Idle

PeepholeAlone == pc = "peephole" /\ Peephole("peepholed")

StartRunsPeephole ==
    /\ pc = "peepholed"
    /\ StartRuns(0..MaxStart,
                 IF no_input(prev_steps) THEN {<<>>} ELSE SeqsUpTo(InputBytes, MaxInput),
                 "all")

NextPeephole == PeepholeAlone \/ StartRunsPeephole \/ StepBefore \/ StepAfter

SpecPeephole == InitPeephole /\ [][NextPeephole]_vars

\* C4: for every Step sequence s, optimize_peephole_combine(s) exists and is
\* observationally equivalent to s under the StepInterpreter semantics: from the same
\* tape and pointer both write the same bytes and reach every Input, Output, Label
\* and jump with the same tape contents and pointer, in the same order.
C4_PeepholePreservesBehaviour ==
    /\ pc # "panicked"
    /\ (pc = "compared" /\ before.status \in {"done"} /\ after.status # "cutoff")
           => /\ after.status = before.status
              /\ after.obs = before.obs
              /\ after.output = before.output

\* two pointer moves were merged and both executions reached the same Output
C4_MergedAndCompared ==
    /\ pc = "compared"
    /\ prev_steps = <<StepNext(1), StepPrev(1), StepOutput>>
    /\ state.steps = <<StepOutput>>
    /\ before.status = "done" /\ after.status = "done"
    /\ after.obs = before.obs /\ Len(after.obs) = 1

(***************************************************************************)
(* optimize_startup: the sequence it leaves against the one it was given   *)
(***************************************************************************)
StartRunsStartup ==
    /\ pc = "lower"
    /\ StartRuns({0}, InputsFor(tokens), "io")

NextStartup ==
    \/ AppendToken \/ PeepholeCombine \/ StartupStep \/ StartupEmit
    \/ StartRunsStartup \/ StepBefore \/ StepAfter

SpecStartup ==
    InitCompile(Programs, {"Linux"}) /\ [][NextStartup]_vars /\ WF_vars(NextStartup)

has_input(ts) == \E k \in 1..Len(ts) : ts[k] = ","

\* C2: compile_tokens comes to an end for every bracket-balanced token sequence, also
\* for a program that loops forever without reading (`+[]`): the evaluation loop of
\* optimize_startup stops after finitely many StepInterpreter steps.
C2_StartupEvaluationStops ==
    <>(pc \in {"lower", "panicked", "cutoff"})

\* C5: for every Step sequence s without an Input step, optimize_startup replaces s by
\* a sequence that reads no input and writes exactly the bytes s writes, in order
\* (one group Add(b); Output; Label(Z); Add(1); JumpToIf(true,Z) per byte).
C5_StartupKeepsOutput ==
    /\ [](pc = "compared" /\ no_input(prev_steps)
             => /\ state.steps = print_output(before.output, Max({0} \cup
                        {prev_steps[k].label + 1 : k \in {j \in 1..Len(prev_steps) :
                             prev_steps[j].op = "Label"}}))
                /\ no_input(state.steps)
                /\ after.status = "done"
                /\ after.output = before.output
                /\ after.inp = input)
    /\ <>(has_input(tokens) \/ pc \in {"compared", "panicked", "cutoff"})

\* a program that writes two bytes and ends: the replacement wrote the same two
C5_TwoBytesReplayed ==
    /\ pc = "compared"
    /\ tokens = <<"-", ".", ".">>
    /\ before.output = <<255, 255>>
    /\ after.output = <<255, 255>>
    /\ after.status = "done"

\* the events of an execution up to and including its first Input
RECURSIVE C6_UpToFirstInput(_)
C6_UpToFirstInput(obs) ==
    IF obs = <<>> THEN <<>>
    ELSE IF Head(obs)[1] = "Input" THEN <<Head(obs)>>
    ELSE <<Head(obs)>> \o C6_UpToFirstInput(Tail(obs))

behind_read ==
    /\ pc = "execute"
    /\ mach.status = "run"
    /\ mach.ip >= 1
    /\ LET i == separate_data(ops)[1][mach.ip]
       IN i.op = "Label" /\ \E n \in 0..MaxTokens + 5 : i.l = interface_label(abi, n)

\* C11: in the program left by the whole optimizer pipeline, on either ABI, when the
\* machine leaves the sequence emitted for an Input step the byte at the tape pointer
\* is 0 if the read call returned 0 (end of input) and is the byte the call delivered
\* if it returned nonzero.
C11_ReadStoresByteOrZero ==
    behind_read
        => /\ mach.regs[rbx][1] = "tape"
           /\ mach.regs[rax] \in {Imm(0), Imm(1)}
           /\ mach.regs[rax] = Imm(0)
                  => mach.inp = <<>> /\ mach.mem[mach.regs[rbx][2] + 1] = 0
           /\ mach.regs[rax] = Imm(1)
                  => mach.mem[mach.regs[rbx][2] + 1] = input[Len(input) - Len(mach.inp)]

\* a cell holding 1 was overwritten with 0 at the end of the input
C11_ZeroStoredAtEndOfInput ==
    /\ behind_read
    /\ tokens = <<"+", ",", ".">>
    /\ input = <<>>
    /\ mach.regs[rax] = Imm(0)
    /\ mach.mem[1] = 0

(***************************************************************************)
(* State::combine on its own, on every pair of steps                       *)
(***************************************************************************)
\* the largest counts of the pairs tried, beside those next to the top of the u64 range
MaxCount == 3

CombineCounts == 0..MaxCount \cup {U64Mod - 2, U64Mod - 1}

CombineSteps ==
    {StepNext(n) : n \in CombineCounts} \cup {StepPrev(n) : n \in CombineCounts}
        \cup {StepAdd(0), StepAdd(1), StepAdd(255), StepOutput, StepInput,
              StepLabel(0), StepJumpTo(0), StepJumpToIf(TRUE, 0), StepJumpToIf(FALSE, 0)}

InitCombine ==
    /\ pc = "combine"
    /\ abi = "Linux"
    /\ debug_build \in BOOLEAN
    /\ tokens = <<>>
    /\ \E a \in CombineSteps, b \in CombineSteps :
           /\ state = [StateNew EXCEPT !.steps = <<a, b>>]
           /\ prev_steps = <<a, b>>
    /\ intp = IntpNew
    /\ ops = <<>> /\ queue = <<>> /\ prev_ops = <<>> /\ last_pass = "none" /\ runs = 0
    /\ input = <<>> /\ mach = Idle /\ ref = Idle /\ before = Idle /\ after = Idle

\* `let c = Self::combine(a, b);`
Combine ==
    /\ pc = "combine"
    /\ LET c == combine(state.steps[1], state.steps[2])
       IN IF c = <<PanicStep>>
          THEN pc' = "panicked" /\ UNCHANGED state
          ELSE pc' = "combined" /\ state' = [state EXCEPT !.steps = c]
    /\ UNCHANGED <<build, intp, prev_steps, backend, running>>

SpecCombine == InitCombine /\ [][Combine]_vars

\* the pair handed to combine was a move to one side followed by a move to the other
C12_Opposite(first, second) ==
    /\ pc \in {"combined", "panicked"}
    /\ prev_steps[1].op = first /\ prev_steps[2].op = second

\* the single step with the net displacement right - left (none when they are equal)
C12_Net(right, left) ==
    IF right = left THEN <<>>
    ELSE IF right > left THEN <<StepNext(right - left)>>
    ELSE <<StepPrev(left - right)>>

\* C12: combine(Prev(x), Next(y)) mirrors combine(Next(x), Prev(y)): no step when
\* x = y, Next(y - x) when y > x, Prev(x - y) when x > y, the merged step moving the
\* pointer as far as the pair does; combine(Next(x), Prev(y)) gives no step when
\* x = y, Next(x - y) when x > y and Prev(y - x) when x < y.
C12_OppositeMovesCancel ==
    /\ C12_Opposite("Prev", "Next")
           => /\ pc = "combined"
              /\ state.steps = C12_Net(prev_steps[2].n, prev_steps[1].n)
    /\ C12_Opposite("Next", "Prev")
           => /\ pc = "combined"
              /\ state.steps = C12_Net(prev_steps[1].n, prev_steps[2].n)

\* C13: when combine merges Next(x), Next(y), or Prev(x), Prev(y), and x + y does not
\* fit the unsigned 64-bit range, compilation stops with a failure: no step with a
\* wrapped count is produced.
C13_OverflowingMergeFails ==
    ( /\ pc \in {"combined", "panicked"}
      /\ prev_steps[1].op \in {"Next", "Prev"}
      /\ prev_steps[2].op = prev_steps[1].op
      /\ prev_steps[1].n + prev_steps[2].n >= U64Mod )
        => pc = "panicked"

(***************************************************************************)
(* Labels and loops in the Step sequence                                   *)
(***************************************************************************)
C14_LabelsUnique(steps) ==
    \A i, j \in 1..Len(steps) :
        (i < j /\ steps[i].op = "Label" /\ steps[j].op = "Label")
            => steps[i].label # steps[j].label

C14_JumpsResolved(steps) ==
    \A i \in 1..Len(steps) :
        steps[i].op \in {"JumpTo", "JumpToIf"}
            => \E j \in 1..Len(steps) : steps[j] = StepLabel(steps[i].label)

\* the loops of `steps`, read from position k with `open` the pairs <<start, end>> not
\* yet closed: each opens with JumpToIf(false, end); Label(start) and closes with
\* JumpToIf(true, start); Label(end) for the pair opened last; `count` loops were read
RECURSIVE C14_Nested(_, _, _, _)
C14_Nested(steps, k, open, count) ==
    IF k > Len(steps) THEN IF open = <<>> THEN count ELSE -1
    ELSE IF steps[k].op # "JumpToIf" THEN C14_Nested(steps, k + 1, open, count)
    ELSE IF k = Len(steps) \/ steps[k + 1].op # "Label" THEN -1
    ELSE IF ~steps[k].cond
         THEN C14_Nested(steps, k + 2,
                         Append(open, <<steps[k + 1].label, steps[k].label>>), count + 1)
    ELSE IF open # <<>> /\ open[Len(open)] = <<steps[k].label, steps[k + 1].label>>
         THEN C14_Nested(steps, k + 2, SubSeq(open, 1, Len(open) - 1), count)
    ELSE -1

C14_Loops(ts) == Cardinality({k \in 1..Len(ts) : ts[k] = "["})

\* the part of the steps optimize_startup took over from the sequence it was given:
\* everything from the JumpTo it put in front, or all of it when nothing was put in front
C14_TakenOver(steps) ==
    LET at == {k \in 1..Len(steps) : steps[k].op = "JumpTo"}
    IN IF at = {} THEN steps ELSE SubSeq(steps, Min(at), Len(steps))

C15_Fixed(s) == s.op \in {"JumpTo", "JumpToIf", "Label", "Output", "Input"}

\* the JumpTo, JumpToIf, Label, Output and Input steps of a sequence, in order
RECURSIVE C15_FixedSteps(_)
C15_FixedSteps(steps) ==
    IF steps = <<>> THEN <<>>
    ELSE (IF C15_Fixed(Head(steps)) THEN <<Head(steps)>> ELSE <<>>)
             \o C15_FixedSteps(Tail(steps))

\* the stretches of Add, Next and Prev steps between them, in order
RECURSIVE C15_Stretches(_, _)
C15_Stretches(steps, cur) ==
    IF steps = <<>> THEN <<cur>>
    ELSE IF C15_Fixed(Head(steps)) THEN <<cur>> \o C15_Stretches(Tail(steps), <<>>)
    ELSE C15_Stretches(Tail(steps), Append(cur, Head(steps)))

\* C15: optimize_peephole_combine merges only steps that stand next to each other and
\* never removes, alters or reorders a JumpTo, JumpToIf, Label, Output or Input step:
\* those steps are the same sequence before and after the pass, and every stretch
\* between two of them comes out of the pass as the pass leaves that stretch alone,
\* so nothing is merged or cancelled across a label, a jump or an I/O step.
C15_PeepholeKeepsControlSteps ==
    (pc \in {"peepholed", "run_before", "run_after", "compared"})
        => /\ C15_FixedSteps(state.steps) = C15_FixedSteps(prev_steps)
           /\ LET was == C15_Stretches(prev_steps, <<>>)
                  is  == C15_Stretches(state.steps, <<>>)
              IN /\ Len(is) = Len(was)
                 /\ \A k \in 1..Len(was) : is[k] = optimize_peephole_combine(was[k])

\* two Adds on either side of a label were both kept
C15_AddsAroundLabelKept ==
    /\ pc = "peepholed"
    /\ prev_steps = <<StepAdd(1), StepLabel(0), StepAdd(255)>>
    /\ state.steps = prev_steps

(***************************************************************************)
(* The order in which the scheduler executes the passes                    *)
(***************************************************************************)
\* the passes still waiting for their first execution lie at the bottom of the queue,
\* in reverse declaration order; whatever lies above them was declared before them all
C16_DeclarationOrder ==
    \E m \in 0..Len(queue) :
        /\ SubSeq(queue, 1, m) = SubSeq(initial_queue, 1, m)
        /\ \A j \in (m + 1)..Len(queue) : queue[j] < Len(Passes) - m - 1
        /\ runs = 0 => m = Len(Passes)
        /\ (runs > 0 /\ m < Len(Passes)) =>
               \E k \in 0..(Len(Passes) - m - 1) : last_pass = Passes[k + 1].name

\* one execution of a pass P that returns: the passes that waited stay where they
\* were, and on top of them lie cleanups of P only, in declared order, each declared
\* cleanup among them unless it was the pass on top of the queue at that moment
C16_CleanupsOnTop ==
    LET P       == Passes[queue[Len(queue)] + 1]
        waiting == SubSeq(queue, 1, Len(queue) - 1)
        above   == SubSeq(queue', Len(waiting) + 1, Len(queue'))
        \* positions of `above` in the declared list, increasing
        declared(k) == \E f \in [1..Len(above) -> 1..Len(P.cleanup)] :
                           /\ \A i \in 1..Len(above) : P.cleanup[f[i]] = above[i]
                           /\ \A i, j \in 1..Len(above) : i < j => f[i] < f[j]
    IN (queue # <<>> /\ pc' = "optimize")
           => /\ last_pass' = P.name
              /\ Len(queue') >= Len(waiting)
              /\ SubSeq(queue', 1, Len(waiting)) = waiting
              /\ declared(0)
              /\ \A k \in 1..Len(P.cleanup) :
                     (\A i \in 1..Len(above) : above[i] # P.cleanup[k])
                         => (waiting # <<>> /\ waiting[Len(waiting)] = P.cleanup[k])

\* C16: the scheduler executes the registered passes in declaration order as long as
\* no cleanup intervenes, optimize_remove_unused_labels first; after a pass P has been
\* executed every declared cleanup of P is executed before any pass that was waiting
\* in the queue when P was popped; a cleanup is left out only when the pass on top of
\* the queue is that same cleanup.
C16_CleanupsRunBeforeWaitingPasses ==
    /\ [](C16_DeclarationOrder
          /\ (runs = 1 => last_pass = "optimize_remove_unused_labels")
          /\ (runs = 2 => last_pass = "optimize_start_cells"))
    /\ [][C16_CleanupsOnTop]_vars

\* optimize_dead_jumps has run as a cleanup of optimize_exit with
\* optimize_remove_unused_labels waiting on top: that cleanup was left out, the other
\* one pushed
C16_CleanupLeftOut ==
    /\ pc = "optimize"
    /\ last_pass = "optimize_dead_jumps"
    /\ queue = <<0, 4>>

(***************************************************************************)
(* optimize_zero_flags on its own                                          *)
(***************************************************************************)
ZeroFlagsVectors ==
    SeqsUpTo({IsZeroPtr8(rbx), IsZeroPtr8(rsi), AddPtr8Imm(rbx, 1), AddPtr8Imm(rsi, 0),
              AddImm(rbx, 1), MovPtr8Imm(rbx, 0), Label(label_name(0)),
              NamedBlackBox("read", "call _read", CallEffects),
              BlackBox("call read", CallEffects)},
             MaxOps)

ZeroFlags == ApplyPass("optimize_zero_flags")

SpecZeroFlags == InitPass(ZeroFlagsVectors) /\ [][ZeroFlags]_vars

\* the position of the nearest instruction before position k that affects the flags,
\* 0 when there is none
C18_NearestFlagSetter(v, k) ==
    LET before_k == {j \in 1..(k - 1) : affects_zero_flag(v[j])}
    IN IF before_k = {} THEN 0 ELSE Max(before_k)

\* the IsZeroPtr8 at position k is redundant in the sense of C18
C18_Redundant(v, k) ==
    /\ v[k].op = "IsZeroPtr8"
    /\ C18_NearestFlagSetter(v, k) > 0
    /\ LET q == v[C18_NearestFlagSetter(v, k)]
       IN \/ q = IsZeroPtr8(v[k].r)
          \/ (q.op = "AddPtr8Imm" /\ q.r = v[k].r)
          \/ (q.op = "NamedBlackBox" /\ q.name = "read")

\* v without its redundant IsZeroPtr8 instructions
C18_Expected(v) ==
    LET kept == {k \in 1..Len(v) : ~C18_Redundant(v, k)}
        RECURSIVE pick(_)
        pick(k) == IF k > Len(v) THEN <<>>
                   ELSE (IF k \in kept THEN <<v[k]>> ELSE <<>>) \o pick(k + 1)
    IN pick(1)

\* C18: optimize_zero_flags removes an IsZeroPtr8(r) exactly when the nearest
\* instruction before it that affects the flags is IsZeroPtr8(r), or AddPtr8Imm(r,_)
\* on the same register, or a NamedBlackBox named `read`; every other instruction is
\* kept, unchanged and in order.
C18_RedundantTestsRemoved ==
    (pc = "applied" /\ ops # PanicOps) => ops = C18_Expected(prev_ops)

(***************************************************************************)
(* optimize_remove_dead_code on its own                                    *)
(***************************************************************************)
DeadCodeVectors ==
    SeqsUpTo({Jump(label_name(0)), Jump(label_name(1)), Label(label_name(0)),
              Label(label_name(1)), AddImm(rbx, 1), JumpNonZero(label_name(0))},
             MaxOps)

RemoveDeadCode == ApplyPass("optimize_remove_dead_code")

SpecDeadCode == InitPass(DeadCodeVectors) /\ [][RemoveDeadCode]_vars

\* the position of the first Label behind position k, 0 when no Label follows
C19_NextLabel(v, k) ==
    LET labels == {p \in (k + 1)..Len(v) : v[p].op = "Label"}
    IN IF labels = {} THEN 0 ELSE Min(labels)

\* position k holds a Jump(L) whose block up to the next Label is dead: that Label
\* is Label(L) and does not follow the jump directly
C19_DeadBlock(v, k) ==
    /\ v[k].op = "Jump"
    /\ C19_NextLabel(v, k) > k + 1
    /\ v[C19_NextLabel(v, k)].l = v[k].l

\* v without its dead blocks, read from position k (the jump of a dead block, which
\* then leads to the instruction right behind it, goes with the block)
RECURSIVE C19_Expected(_, _)
C19_Expected(v, k) ==
    IF k > Len(v) THEN <<>>
    ELSE IF C19_DeadBlock(v, k) THEN C19_Expected(v, C19_NextLabel(v, k))
    ELSE <<v[k]>> \o C19_Expected(v, k + 1)

\* C19: optimize_remove_dead_code removes instructions behind an unconditional
\* Jump(L) only up to the next Label, and only when that Label is Label(L); when the
\* next Label has another name, or no Label follows the jump at all, the jump and
\* every instruction behind it are kept.
C19_OnlyDeadBlocksRemoved ==
    pc = "applied" =>
        /\ ops = C19_Expected(prev_ops, 1)
        /\ (\A k \in 1..Len(prev_ops) : ~C19_DeadBlock(prev_ops, k)) => ops = prev_ops

(***************************************************************************)
(* optimize_constant_output on its own                                     *)
(***************************************************************************)
\* the expanded "write one literal byte" sequence
literal_write(r, b) == <<MovPtr8Imm(r, b)>> \o write_bytes("Linux", r, 1)

RECURSIVE concat_all(_)
concat_all(parts) == IF parts = <<>> THEN <<>> ELSE Head(parts) \o concat_all(Tail(parts))

\* up to MaxOps pieces: literal writes, a write of the current cell, other instructions
ConstantOutputVectors ==
    {concat_all(parts) :
        parts \in SeqsUpTo({literal_write(rbx, 1), literal_write(rbx, 2),
                            write_bytes("Linux", rbx, 1),
                            <<AddPtr8Imm(rbx, 1)>>, <<AddImm(rbx, 1)>>}, MaxOps)}

ConstantOutput == ApplyPass("optimize_constant_output")

SpecConstantOutput == InitPass(ConstantOutputVectors) /\ [][ConstantOutput]_vars

\* a straight-line vector executed to its end on a zeroed tape
RECURSIVE run_to_end(_, _, _)
run_to_end(body, data, m) ==
    IF m.status # "run" THEN m
    ELSE IF m.ip = Len(body) THEN [m EXCEPT !.status = "end"]
    ELSE run_to_end(body, data, exec(body, data, m))

\* the bytes the vector writes to stdout
written(v) == run_to_end(separate_data(v)[1], separate_data(v)[2], MachNew(<<>>)).out

\* the number of literal-write groups standing in a row from position k
RECURSIVE C20_RunOfGroups(_, _)
C20_RunOfGroups(v, k) ==
    IF k + 4 <= Len(v) /\ v[k].op = "MovPtr8Imm"
           /\ SubSeq(v, k + 1, k + 4) = write_bytes("Linux", v[k].r, 1)
    THEN 1 + C20_RunOfGroups(v, k + 5) ELSE 0

\* what C20 says the pass makes of v from position k: <<instructions, Data items>>
RECURSIVE C20_Expected(_, _, _)
C20_Expected(v, k, n) ==
    IF k > Len(v) THEN <<<<>>, <<>>>>
    ELSE LET g == C20_RunOfGroups(v, k) IN
         IF g = 0
         THEN LET rest == C20_Expected(v, k + 1, n)
              IN <<<<v[k]>> \o rest[1], rest[2]>>
         ELSE LET rest == C20_Expected(v, k + 5 * g, n + 1)
                  name == constant_output_name(n)
              IN << <<MovImm(rdi, 1), MovImmVar(rsi, name), MovImm(rdx, g),
                      BlackBox("call write", CallEffects)>> \o rest[1],
                    <<Data(name, [i \in 1..g |-> v[k + 5 * (i - 1)].v])>> \o rest[2] >>

\* C20: for every instruction vector the output of optimize_constant_output writes
\* to stdout the bytes its input writes, in the same order: every maximal run of k
\* groups MovPtr8Imm(r,b); MovImm(rdi,1); Mov(rsi,r); MovImm(rdx,1); write becomes one
\* write of length k from a Data item holding b_1..b_k, also when the run ends the
\* vector, and no two synthesized Data items have the same name.
C20_ConstantOutputKeepsBytes ==
    (pc = "applied" /\ ops # PanicOps) =>
        /\ written(ops) = written(prev_ops)
        /\ ops = C20_Expected(prev_ops, 1, 0)[1] \o C20_Expected(prev_ops, 1, 0)[2]
        /\ \A i, j \in 1..Len(ops) :
               (i < j /\ ops[i].op = "Data" /\ ops[j].op = "Data")
                   => ops[i].name # ops[j].name

(***************************************************************************)
(* optimize_redundant_movs on its own                                      *)
(***************************************************************************)
\* `last_known`: Some(v) is <<v>>, a missing key is <<>>
redundant_movs_update(last_known, op) ==
    CASE op.op \in {"BlackBox", "NamedBlackBox", "Label"} -> [r \in RegNames |-> <<>>]
      [] op.op = "Mov" -> [last_known EXCEPT ![op.r] = last_known[op.r2]]
      [] op.op = "MovImm" -> [last_known EXCEPT ![op.r] = <<op.v>>]
      [] op.op \in {"AddImm", "SubImm"} -> [last_known EXCEPT ![op.r] = <<>>]
      [] OTHER -> last_known

\* `include_this`
redundant_movs_include(last_known, op) ==
    CASE op.op = "MovImm" -> last_known[op.r] # <<op.v>>
      [] op.op = "Mov" -> ~(last_known[op.r] # <<>> /\ last_known[op.r] = last_known[op.r2])
      [] OTHER -> TRUE

RECURSIVE redundant_movs_from(_, _, _, _)
redundant_movs_from(v, index, last_known, result) ==
    IF index > Len(v) THEN result
    ELSE redundant_movs_from(v, index + 1, redundant_movs_update(last_known, v[index]),
                             IF redundant_movs_include(last_known, v[index])
                             THEN Append(result, v[index]) ELSE result)

optimize_redundant_movs(v) == redundant_movs_from(v, 1, [r \in RegNames |-> <<>>], <<>>)

RedundantMovsVectors ==
    SeqsUpTo({MovImm(rsi, 0), MovImm(rsi, 1), MovImm(rdi, 1), Mov(rdi, rsi), Mov(rsi, rdi),
              MovImmVar(rsi, constant_output_name(0)), AddImm(rsi, 1), SubImm(rdi, 1),
              MovPtr8Imm(rbx, 1), Label(label_name(0)), BlackBox("call read", CallEffects),
              NamedBlackBox("read", "call _read", CallEffects)},
             MaxOps)

RedundantMovs ==
    /\ pc = "apply"
    /\ prev_ops' = ops
    /\ ops' = optimize_redundant_movs(ops)
    /\ last_pass' = "optimize_redundant_movs"
    /\ runs' = runs + 1
    /\ pc' = "applied"
    /\ UNCHANGED <<build, frontend, queue, running>>

SpecRedundantMovs == InitPass(RedundantMovsVectors) /\ [][RedundantMovs]_vars

\* the table of C21 before position k: what each register is certain to hold
RECURSIVE C21_Certain(_, _)
C21_Certain(v, k) ==
    IF k = 1 THEN [r \in RegNames |-> <<>>]
    ELSE LET t == C21_Certain(v, k - 1)
             op == v[k - 1]
         IN CASE op.op \in {"BlackBox", "NamedBlackBox", "Label"} -> [r \in RegNames |-> <<>>]
              [] op.op = "MovImm" -> [t EXCEPT ![op.r] = <<op.v>>]
              [] op.op = "Mov" -> [t EXCEPT ![op.r] = t[op.r2]]
              [] op.op \in {"AddImm", "SubImm", "MovImmVar"} -> [t EXCEPT ![op.r] = <<>>]
              [] OTHER -> t

\* the instruction at position k writes what its register is certain to hold already
C21_Redundant(v, k) ==
    LET t == C21_Certain(v, k)
    IN \/ v[k].op = "MovImm" /\ t[v[k].r] = <<v[k].v>>
       \/ v[k].op = "Mov" /\ t[v[k].r] # <<>> /\ t[v[k].r] = t[v[k].r2]

C21_Expected(v) ==
    LET RECURSIVE pick(_)
        pick(k) == IF k > Len(v) THEN <<>>
                   ELSE (IF C21_Redundant(v, k) THEN <<>> ELSE <<v[k]>>) \o pick(k + 1)
    IN pick(1)

\* the registers after the vector has run from its first to its last instruction
C21_RegistersAfter(v) == run_to_end(v, <<>>, MachNew(<<>>))

\* C21: optimize_redundant_movs drops MovImm(r,v) only when r is certain to hold v and
\* Mov(r1,r2) only when both are certain to hold the same value, where a register's
\* recorded value is invalidated by AddImm/SubImm on it, by Mov into it from an unknown
\* register and by MovImmVar into it, and everything is forgotten at a BlackBox,
\* NamedBlackBox or Label; so a vector that runs to its end leaves every register
\* with the value the unoptimized vector leaves in it.
C21_OnlyCertainMovsDropped ==
    pc = "applied" =>
        /\ ops = C21_Expected(prev_ops)
        /\ (C21_RegistersAfter(prev_ops).status = "end"
                => C21_RegistersAfter(ops).regs = C21_RegistersAfter(prev_ops).regs)

(***************************************************************************)
(* optimize_dead_jumps on its own                                          *)
(***************************************************************************)
\* every vector ends with the target of its jumps, behind one instruction to skip
DeadJumpsVectors ==
    {head \o <<MovImm(rdi, 1), Label(label_name(0))>> :
        head \in SeqsUpTo({IsZeroPtr8(rbx), JumpZero(label_name(0)),
                           JumpNonZero(label_name(0)), MovImm(rdi, 0), MovImm(rdi, 2),
                           AddPtr8Imm(rbx, 1), MovPtr8Imm(rbx, 0), Label(label_name(1))},
                          MaxOps + 1)}

DeadJumps == ApplyPass("optimize_dead_jumps")

SpecDeadJumps == InitPass(DeadJumpsVectors) /\ [][DeadJumps]_vars

\* v without the positions in D
C22_Without(v, D) ==
    LET RECURSIVE pick(_)
        pick(k) == IF k > Len(v) THEN <<>>
                   ELSE (IF k \in D THEN <<>> ELSE <<v[k]>>) \o pick(k + 1)
    IN pick(1)

\* the conditional jump at position k stands behind a jump of its kind, with nothing
\* that affects the flags between the two
C22_Guarded(v, k) ==
    /\ v[k].op \in {"JumpZero", "JumpNonZero"}
    /\ \E j \in 1..(k - 1) :
           /\ v[j].op = v[k].op
           /\ \A between \in (j + 1)..(k - 1) : ~affects_zero_flag(v[between])

\* the state in which the vector ends when the current cell holds `value` at its start
C22_Run(v, value) ==
    LET m == run_to_end(v, <<>>, [MachNew(<<>>) EXCEPT !.mem[1] = value])
    IN [status |-> m.status, regs |-> m.regs, mem |-> m.mem]

\* C22: optimize_dead_jumps removes only conditional jumps that stand behind a jump
\* of the same kind with no flag-affecting instruction (Label included) between the
\* two, and a removed jump is never taken by an execution that reaches it: the
\* vector without it ends in the same state.
C22_OnlyUntakenJumpsRemoved ==
    (pc = "applied" /\ ops # PanicOps) =>
        /\ \E D \in SUBSET (1..Len(prev_ops)) :
               /\ ops = C22_Without(prev_ops, D)
               /\ \A k \in D : C22_Guarded(prev_ops, k)
        /\ \A value \in {0, 1} : C22_Run(ops, value) = C22_Run(prev_ops, value)

(***************************************************************************)
(* optimize_jump_skip_recheck on its own                                   *)
(***************************************************************************)
MaxLoopTokens == 5

\* small vectors of any shape, and the loops State::to_assembly emits
JumpSkipRecheckVectors ==
    SeqsUpTo({IsZeroPtr8(rbx), IsZeroPtr8(rsi), JumpZero(label_name(0)),
              JumpNonZero(label_name(0)), JumpZero(label_name(1)), Label(label_name(0)),
              AddPtr8Imm(rbx, 1)}, MaxOps + 2)
    \cup {lower_steps(append_all(StateNew, ts).steps, "Linux", 0) :
            ts \in {t \in SeqsUpTo({"[", "]", "+"}, MaxLoopTokens) : balance(t, 0)}}

JumpSkipRecheck == ApplyPass("optimize_jump_skip_recheck")

SpecJumpSkipRecheck == InitPass(JumpSkipRecheckVectors) /\ [][JumpSkipRecheck]_vars

\* the position of the recheck jump the conditional jump at position k of v can skip,
\* 0 when the jump stays as it is
C23_Recheck(v, k) ==
    IF k < 2 \/ v[k].op \notin {"JumpZero", "JumpNonZero"} \/ v[k - 1].op # "IsZeroPtr8"
    THEN 0
    ELSE LET at == {p \in 1..Len(v) : v[p] = Label(v[k].l)}
             p == Min(at)
         IN IF at = {} THEN 0
            ELSE IF /\ p + 2 <= Len(v)
                    /\ v[p + 1] = IsZeroPtr8(v[k - 1].r)
                    /\ v[p + 2].op \in {"JumpZero", "JumpNonZero"} \ {v[k].op}
                 THEN p + 2 ELSE 0

\* the counter value of the label made for the jump at position k
C23_Number(v, k) == Cardinality({j \in 1..(k - 1) : C23_Recheck(v, j) # 0})

\* the new labels standing behind position k, the one made last in front
RECURSIVE C23_LabelsBehind(_, _, _)
C23_LabelsBehind(v, k, j) ==
    IF j < 1 THEN <<>>
    ELSE (IF C23_Recheck(v, j) = k
          THEN <<Label(jump_skip_recheck_name(C23_Number(v, j)))>> ELSE <<>>)
             \o C23_LabelsBehind(v, k, j - 1)

RECURSIVE C23_Expected(_, _)
C23_Expected(v, k) ==
    IF k > Len(v) THEN <<>>
    ELSE <<IF C23_Recheck(v, k) # 0
           THEN [v[k] EXCEPT !.l = jump_skip_recheck_name(C23_Number(v, k))]
           ELSE v[k]>>
         \o C23_LabelsBehind(v, k, Len(v)) \o C23_Expected(v, k + 1)

\* the positions of the labels of v
C23_Labels(v) == {k \in 1..Len(v) : v[k].op = "Label"}

\* C23: optimize_jump_skip_recheck retargets a conditional jump that stands directly
\* behind IsZeroPtr8(r) only when its Label is directly followed by IsZeroPtr8(r) and
\* the opposite conditional jump, to a new label put directly behind that recheck
\* jump; every jump of the vector is looked at once, everything else stays in place,
\* and no new label has the name of another label of the result.
C23_RecheckSkippedOnce ==
    (pc = "applied" /\ ops # PanicOps) =>
        /\ ops = C23_Expected(prev_ops, 1)
        /\ \A k \in C23_Labels(ops) :
               ops[k].l[1] = ".jump_skip_recheck"
                   => \A j \in C23_Labels(ops) \ {k} : ops[j] # ops[k]

\* both jumps of an inner loop were retargeted, the backward one after the insertion
\* of the first new label had moved it
C23_BothJumpsOfLoopRetargeted ==
    /\ pc = "applied" /\ ops # PanicOps
    /\ Len(ops) = Len(prev_ops) + 2
    /\ \E k \in 2..Len(prev_ops) :
           /\ C23_Recheck(prev_ops, k) # 0 /\ C23_Recheck(prev_ops, k) < k
           /\ C23_Number(prev_ops, k) = 1

(***************************************************************************)
(* optimize_remove_nops on its own                                         *)
(***************************************************************************)
RemoveNopsVectors ==
    SeqsUpTo({IsZeroPtr8(rbx), AddPtr8Imm(rbx, 0), AddPtr8Imm(rbx, 1), AddImm(rbx, 0),
              MovPtr8Imm(rbx, 1), JumpZero(label_name(0)), Jump(label_name(0)),
              Label(label_name(0)), Data(constant_output_name(0), <<1>>),
              BlackBox("call read", CallEffects), BlackBox("", NOP),
              BlackBox("cmp byte [rbx], 1", FLAG)},
             MaxOps)

RemoveNops == ApplyPass("optimize_remove_nops")

SpecRemoveNops == InitPass(RemoveNopsVectors) /\ [][RemoveNops]_vars

\* flags set, no register and no control-flow effect
C24_FlagOnly(i) ==
    /\ effects(i) # <<>>
    /\ effects(i)[1].flags /\ ~effects(i)[1].registers /\ ~effects(i)[1].control_flow

\* behind position k the flags are written, or the vector ends, before they are read
C24_Overwritten(v, k) ==
    LET readers == {j \in (k + 1)..Len(v) : reads_zf(v[j])}
        writers == {j \in (k + 1)..Len(v) : affects_zero_flag(v[j])}
    IN readers = {} \/ (writers # {} /\ Min(writers) < Min(readers))

C24_Removed(v, k) ==
    /\ effects(v[k]) # <<>>
    /\ \/ effects(v[k])[1] = NOP
       \/ C24_FlagOnly(v[k]) /\ C24_Overwritten(v, k)

C24_Expected(v) ==
    LET RECURSIVE pick(_)
        pick(k) == IF k > Len(v) THEN <<>>
                   ELSE (IF C24_Removed(v, k) THEN <<>> ELSE <<v[k]>>) \o pick(k + 1)
    IN pick(1)

\* C24: optimize_remove_nops removes an instruction only if its effects are NOP, or
\* it is flag-only and behind it a flag-writing instruction or the end of the vector
\* comes before any instruction that reads the zero flag; a flag-only instruction
\* whose result is read first is kept, Data items are kept, and what is kept stays in
\* order.
C24_OnlyUnreadFlagSettersRemoved ==
    (pc = "applied" /\ ops # PanicOps) => ops = C24_Expected(prev_ops)

\* one test overwritten and removed, one test in front of its reader and kept
C24_OneTestRemovedOneKept ==
    /\ pc = "applied"
    /\ prev_ops = <<IsZeroPtr8(rbx), IsZeroPtr8(rbx), JumpZero(label_name(0))>>
    /\ ops = <<IsZeroPtr8(rbx), JumpZero(label_name(0))>>

(***************************************************************************)
(* optimize_exit on its own                                                *)
(***************************************************************************)
ExitVectors ==
    SeqsUpTo({AddPtr8Imm(rbx, 1), AddImm(rbx, 1), MovImm(rdi, 0), IsZeroPtr8(rbx),
              Label(label_name(0)), JumpNonZero(label_name(0)),
              Data(constant_output_name(0), <<1>>), BlackBox("call write", CallEffects),
              NamedBlackBox("exit", "call exit", VOLATILE)},
             MaxOps + 1)

Exit == ApplyPass("optimize_exit")

SpecExit == InitPass(ExitVectors) /\ [][Exit]_vars

\* the first instruction behind position k with a control-flow or io effect, 0 if none
C25_NextControlOrIo(v, k) ==
    LET at == {j \in (k + 1)..Len(v) : control_or_io(v[j])}
    IN IF at = {} THEN 0 ELSE Min(at)

C25_Removed(v, k) ==
    LET j == C25_NextControlOrIo(v, k)
    IN /\ v[k].op # "Label" /\ effects(v[k]) # <<>> /\ ~control_or_io(v[k])
       /\ j > k + 1
       /\ v[j].op = "NamedBlackBox" /\ v[j].name = "exit"

C25_Expected(v) ==
    LET RECURSIVE pick(_)
        pick(k) == IF k > Len(v) THEN <<>>
                   ELSE (IF C25_Removed(v, k) THEN <<>> ELSE <<v[k]>>) \o pick(k + 1)
    IN pick(1)

\* C25: optimize_exit removes an instruction only if it is not a Label, has neither
\* control-flow nor io effect, and the first control-flow/io instruction behind it is
\* the NamedBlackBox named `exit`; the instruction directly in front of `exit` is
\* kept, and so is every control-flow, io, Label and Data instruction.
C25_OnlyWorkBeforeExitRemoved ==
    (pc = "applied" /\ ops # PanicOps) =>
        /\ ops = C25_Expected(prev_ops)
        /\ \A k \in 2..Len(prev_ops) :
               (prev_ops[k].op = "NamedBlackBox" /\ prev_ops[k].name = "exit")
                   => ~C25_Removed(prev_ops, k - 1)

\* the cell update is gone, the exit code and the label in front of it are kept
C25_ExitCodeKept ==
    /\ pc = "applied"
    /\ prev_ops = <<AddPtr8Imm(rbx, 1), Label(label_name(0)), MovImm(rdi, 0),
                    NamedBlackBox("exit", "call exit", VOLATILE)>>
    /\ ops = <<Label(label_name(0)), MovImm(rdi, 0),
               NamedBlackBox("exit", "call exit", VOLATILE)>>

(***************************************************************************)
(* optimize_adjacent on its own: Instruction::combine on neighbours        *)
(***************************************************************************)
AdjacentVectors ==
    SeqsUpTo(UNION {{AddImm(r, 1), AddImm(r, 2), AddImm(r, U64Mod - 1),
                     SubImm(r, 1), SubImm(r, 2), SubImm(r, U64Mod - 1),
                     AddPtr8Imm(r, 1), AddPtr8Imm(r, 128), AddPtr8Imm(r, U8Mod - 1),
                     MovPtr8Imm(r, 0), MovPtr8Imm(r, U8Mod - 1)} : r \in {rbx, rsi}},
             MaxOps)

Adjacent == ApplyPass("optimize_adjacent")

SpecAdjacent == InitPass(AdjacentVectors) /\ [][Adjacent]_vars

\* the state in which the vector ends when rbx and rsi point at two cells holding
\* `value`
C26_Run(v, value) ==
    LET m == run_to_end(v, <<>>, [MachNew(<<>>) EXCEPT !.regs[rsi] = TapeAddr(1),
                                                       !.mem[1] = value, !.mem[2] = value])
    IN [status |-> m.status, regs |-> m.regs, mem |-> m.mem]

\* what AddImm/SubImm instructions add to their register, mod 2^64
RECURSIVE C26_Displacement(_)
C26_Displacement(v) ==
    IF v = <<>> THEN 0
    ELSE ((IF Head(v).op = "AddImm" THEN Head(v).v ELSE U64Mod - Head(v).v)
              + C26_Displacement(Tail(v))) % U64Mod

\* `out` is what the statement says of the pair a, b
C26_AsStated(a, b, out) ==
    LET moves == {"AddImm", "SubImm"} IN
    IF a.r # b.r THEN out = <<a, b>>
    ELSE IF a.op = "AddPtr8Imm" /\ b.op = "AddPtr8Imm"
        THEN out = <<AddPtr8Imm(a.r, (a.v + b.v) % U8Mod)>>
    ELSE IF a.op = "AddPtr8Imm" /\ b.op = "MovPtr8Imm" THEN out = <<MovPtr8Imm(a.r, b.v)>>
    ELSE IF a.op = "MovPtr8Imm" /\ b.op = "AddPtr8Imm"
        THEN out = <<MovPtr8Imm(a.r, (a.v + b.v) % U8Mod)>>
    ELSE IF a.op \in moves /\ b.op \in moves
        THEN IF a.op # b.op /\ a.v = b.v THEN out = <<>>
             ELSE /\ Len(out) = 1 /\ out[1].op \in moves /\ out[1].r = a.r
                  /\ C26_Displacement(out) = C26_Displacement(<<a, b>>)
    ELSE out = <<a, b>>

\* C26: a fusion of two instructions on the same register keeps their effect on the
\* register and on the byte it points at, in either order: an AddImm/SubImm pair gives
\* nothing when it cancels and else one AddImm or SubImm of the net displacement mod
\* 2^64, two AddPtr8Imm give their sum mod 256, AddPtr8Imm then MovPtr8Imm gives the
\* mov, MovPtr8Imm(v0) then AddPtr8Imm(v1) gives MovPtr8Imm((v0 + v1) mod 256);
\* instructions on different registers stay as they are.
C26_FusionKeepsEffect ==
    pc = "applied" =>
        /\ \A value \in {0, 1, U8Mod - 1} : C26_Run(ops, value) = C26_Run(prev_ops, value)
        /\ Len(prev_ops) = 2 => C26_AsStated(prev_ops[1], prev_ops[2], ops)

\* a mov absorbed the add behind it, with the sum wrapped to eight bits
C26_MovAbsorbedAdd ==
    /\ pc = "applied"
    /\ prev_ops = <<MovPtr8Imm(rbx, U8Mod - 1), AddPtr8Imm(rbx, 1)>>
    /\ ops = <<MovPtr8Imm(rbx, 0)>>

(***************************************************************************)
(* optimize_peephole_combine applied to its own result                     *)
(***************************************************************************)
FixpointVectors ==
    SeqsUpTo({StepNext(1), StepPrev(1), StepAdd(1), StepAdd(255), StepLabel(0)},
             MaxOps + 1)

InitFixpoint ==
    /\ pc = "peephole"
    /\ abi = "Linux"
    /\ debug_build \in BOOLEAN
    /\ tokens = <<>>
    /\ \E s \in FixpointVectors : state = [StateNew EXCEPT !.steps = s]
    /\ intp = IntpNew /\ prev_steps = <<>>
    /\ ops = <<>> /\ queue = <<>> /\ prev_ops = <<>> /\ last_pass = "none" /\ runs = 0
    /\ input = <<>> /\ mach = Idle /\ ref = Idle /\ before = Idle /\ after = Idle

\* self.optimize_peephole_combine() once more, on the steps the first call left
PeepholeAgain == pc = "peepholed" /\ Peephole("repeated")

NextFixpoint == PeepholeAlone \/ PeepholeAgain

SpecFixpoint == InitFixpoint /\ [][NextFixpoint]_vars

\* two steps combine would merge: Add next to Add, Next/Prev next to Next/Prev
C27_Mergeable(a, b) ==
    \/ a.op = "Add" /\ b.op = "Add"
    \/ a.op \in {"Next", "Prev"} /\ b.op \in {"Next", "Prev"}

\* C27: the result of optimize_peephole_combine holds no two adjacent steps that
\* combine would merge, and a second application of the pass changes nothing, also
\* when a Next/Prev cancellation made the steps on both sides of the pair adjacent.
C27_PeepholeResultIsFixedPoint ==
    /\ pc = "peepholed" =>
           \A k \in 1..(Len(state.steps) - 1) :
               ~C27_Mergeable(state.steps[k], state.steps[k + 1])
    /\ pc = "repeated" => state.steps = prev_steps

\* the state in which the vector ends when the current cell holds `value` at its start
C28_Run(v, value) ==
    LET m == run_to_end(v, <<>>, [MachNew(<<>>) EXCEPT !.mem[1] = value])
    IN [status |-> m.status, zf |-> m.zf, regs |-> m.regs, mem |-> m.mem]

\* C28: whenever optimize_zero_flags removes an IsZeroPtr8(r), the zero flag at that
\* point of every execution already says whether the byte at [r] is zero, nothing
\* between the flag-setter and the removed test having changed that byte or r
\* unnoticed; so the vector without the test ends with the same zero flag, registers
\* and memory.
C28_RemovedTestLeavesFlagAsItWas ==
    (pc = "applied" /\ ops # PanicOps) =>
        \A value \in {0, 1, U8Mod - 1} : C28_Run(ops, value) = C28_Run(prev_ops, value)

\* C29: optimize_zero_flags returns a vector for every instruction vector, with no
\* index out of range and no arithmetic underflow, also when the first instruction
\* is IsZeroPtr8, which is then kept as there is no flag-setter in front of it.
C29_ZeroFlagsAlwaysReturns ==
    pc = "applied" =>
        /\ ops # PanicOps
        /\ (prev_ops # <<>> /\ prev_ops[1].op = "IsZeroPtr8")
               => (ops # <<>> /\ ops[1] = prev_ops[1])

\* the state in which the vector ends on the zeroed tape
C30_Run(v) == run_to_end(v, <<>>, MachNew(<<>>))

\* C30: executing the output of optimize_adjancent_mem_movs leaves memory and the
\* register r as executing its input does: for a run of consecutive MovPtr8Imm(r, b_i)
\* with no pointer move between them, every byte of memory and the final value of r
\* are the same before and after the rewrite into a wide store and AddImm(r, width).
C30_PackedStoresLeaveSameState ==
    (pc = "applied" /\ C30_Run(prev_ops).status = "end" /\ C30_Run(ops).status = "end") =>
        /\ C30_Run(ops).mem = C30_Run(prev_ops).mem
        /\ C30_Run(ops).regs = C30_Run(prev_ops).regs
====
